---- MODULE Spec2Model ----
(***************************************************************************)
(* A model of the schema composition and validation engine of package god  *)
(* (sriniously/god): BaseSchema nil/default/required resolution, the leaf  *)
(* validators the scenarios use, Object / Array / Tuple / Union /          *)
(* DiscriminatedUnion / Lazy / Literal / Enum / Nullable / Any / Unknown / *)
(* Void / Never validation, and ObjectSchema.getEffectiveFields.           *)
(*                                                                         *)
(* Go values (interface{}) are tagged records; a float64 is kept as a      *)
(* number of halves so that 0 (int) and 0.0 (float64) and 0.5 differ.      *)
(* Schema nodes are heap cells named by strings; "nil" is the nil pointer. *)
(***************************************************************************)
EXTENDS Integers, Sequences, FiniteSets, TLC

VARIABLES heap, focus, last, threads

vars == <<heap, focus, last, threads>>

(***************************************************************************)
(* Go values                                                               *)
(***************************************************************************)
Nil == [t |-> "nil"]
BoolV(b) == [t |-> "bool", v |-> b]
IntV(n) == [t |-> "int", v |-> n]
\* float64 whose value is h/2
FloatV(h) == [t |-> "float64", v |-> h]
StrV(s) == [t |-> "string", v |-> s]
SliceV(q) == [t |-> "slice", v |-> q]
MapV(f) == [t |-> "map", v |-> f]

EmptyMap == [k \in {} |-> Nil]

NilNode == "nil"

\* the depth of nesting of a value: 0 for a scalar
RECURSIVE ValueDepth(_)
ValueDepth(v) ==
    IF v.t = "slice"
    THEN IF Len(v.v) = 0 THEN 1
         ELSE 1 + CHOOSE m \in {ValueDepth(v.v[i]) : i \in 1..Len(v.v)} :
                    \A i \in 1..Len(v.v) : ValueDepth(v.v[i]) <= m
    ELSE IF v.t = "map"
    THEN IF DOMAIN v.v = {} THEN 1
         ELSE 1 + CHOOSE m \in {ValueDepth(v.v[k]) : k \in DOMAIN v.v} :
                    \A k \in DOMAIN v.v : ValueDepth(v.v[k]) <= m
    ELSE 0

Max2(a, b) == IF a >= b THEN a ELSE b

(***************************************************************************)
(* god.go: ValidationError, ValidationResult, BaseSchema                   *)
(***************************************************************************)
ValidationError(field, message, code, value) ==
    [field |-> field, message |-> message, code |-> code, value |-> value]

ValidationResult(valid, errors, value) ==
    [valid |-> valid, errors |-> errors, value |-> value]

\* ValidationResult{Valid: true, Value: v}
ValidResult(v) == ValidationResult(TRUE, <<>>, v)

\* ValidationResult{Valid: false, Errors: errs}
InvalidResult(errs) == ValidationResult(FALSE, errs, Nil)

\* the zero ValidationResult{}
ZeroResult == ValidationResult(FALSE, <<>>, Nil)

\* BaseSchema{isRequired: true}, as every constructor builds it
BaseSchema ==
    [isOptional |-> FALSE, isRequired |-> TRUE,
     defaultValue |-> Nil, hasDefault |-> FALSE]

setOptional_KeepRequired(s) == [s EXCEPT !.isOptional = TRUE]

setOptional(s) == [s EXCEPT !.isOptional = TRUE, !.isRequired = FALSE]

setRequired(s) == [s EXCEPT !.isRequired = TRUE, !.isOptional = FALSE]

setDefault(s, value) == [s EXCEPT !.defaultValue = value, !.hasDefault = TRUE]

RequiredError == ValidationError("", <<"field is required">>, "required", Nil)

\* handleNil as the specification words it: the default short-circuits
handleNil_Verbatim(s, value) ==
    IF value = Nil
    THEN IF s.hasDefault
         THEN [value |-> s.defaultValue, shouldReturn |-> TRUE,
               result |-> ValidResult(s.defaultValue)]
         ELSE IF s.isOptional
         THEN [value |-> Nil, shouldReturn |-> TRUE, result |-> ValidResult(Nil)]
         ELSE [value |-> Nil, shouldReturn |-> TRUE,
               result |-> InvalidResult(<<RequiredError>>)]
    ELSE [value |-> value, shouldReturn |-> FALSE, result |-> ZeroResult]

\* handleNil with the optional flag looked at before the default
handleNil_OptionalFirst(s, value) ==
    IF value = Nil
    THEN IF s.isOptional
         THEN [value |-> Nil, shouldReturn |-> TRUE, result |-> ValidResult(Nil)]
         ELSE IF s.hasDefault
         THEN [value |-> s.defaultValue, shouldReturn |-> FALSE,
               result |-> ValidResult(s.defaultValue)]
         ELSE [value |-> Nil, shouldReturn |-> TRUE,
               result |-> InvalidResult(<<RequiredError>>)]
    ELSE [value |-> value, shouldReturn |-> FALSE, result |-> ZeroResult]

\* handleNil returns (processed value, shouldReturn, result)
handleNil(s, value) ==
    IF value = Nil
    THEN IF s.hasDefault
         THEN [value |-> s.defaultValue, shouldReturn |-> FALSE,
               result |-> ValidResult(s.defaultValue)]
         ELSE IF s.isOptional
         THEN [value |-> Nil, shouldReturn |-> TRUE, result |-> ValidResult(Nil)]
         ELSE IF s.isRequired
         THEN [value |-> Nil, shouldReturn |-> TRUE,
               result |-> InvalidResult(<<RequiredError>>)]
         ELSE [value |-> Nil, shouldReturn |-> TRUE,
               result |-> InvalidResult(<<RequiredError>>)]
    ELSE [value |-> value, shouldReturn |-> FALSE, result |-> ZeroResult]

(***************************************************************************)
(* The schema trees under verification.  Every node is one constructor     *)
(* call of the package; the record holds the variant's own settings (a nil *)
(* *int / *float64 is the empty tuple, a set one a one-element tuple).     *)
(***************************************************************************)
StringCfg(min, max) == [kind |-> "String", minLength |-> min, maxLength |-> max]

NumberCfg(int, min, max, positive) ==
    [kind |-> "Number", int |-> int, min |-> min, max |-> max,
     positive |-> positive, negative |-> FALSE, nonNeg |-> FALSE, nonPos |-> FALSE]

ArrayCfg(element, min, max, length, nonempty) ==
    [kind |-> "Array", element |-> element, minLength |-> min,
     maxLength |-> max, length |-> length, nonempty |-> nonempty]

ObjectNodes == {"user", "P", "B", "strict", "loose", "circle", "sq", "treeObj", "treeObj2",
                "outer", "mid", "inner", "holder", "vobj", "W", "M", "M2"}

LazyNodes == {"tree"}

Cfg ==
    [str |-> StringCfg(<<>>, <<>>),
     num |-> NumberCfg(FALSE, <<>>, <<>>, FALSE),
     int1 |-> NumberCfg(TRUE, <<2>>, <<>>, FALSE),
     bool |-> [kind |-> "Boolean"],
     lit |-> [kind |-> "Literal", value |-> StrV("a")],
     enum |-> [kind |-> "Enum", values |-> <<StrV("a"), IntV(1)>>],
     any |-> [kind |-> "Any"],
     unk |-> [kind |-> "Unknown"],
     void |-> [kind |-> "Void"],
     never |-> [kind |-> "Never"],
     nullable |-> [kind |-> "Nullable", schema |-> "nstr"],
     nstr |-> StringCfg(<<2>>, <<>>),
     arr |-> ArrayCfg("aelem", <<1>>, <<>>, <<>>, FALSE),
     aelem |-> StringCfg(<<>>, <<>>),
     tup |-> [kind |-> "Tuple", elements |-> <<"t0", "t1">>, rest |-> NilNode],
     t0 |-> StringCfg(<<>>, <<>>),
     t1 |-> NumberCfg(FALSE, <<>>, <<>>, FALSE),
     tupr |-> [kind |-> "Tuple", elements |-> <<"r0", "r1">>, rest |-> "rr"],
     r0 |-> StringCfg(<<2>>, <<>>),
     r1 |-> NumberCfg(FALSE, <<>>, <<>>, FALSE),
     rr |-> [kind |-> "Boolean"],
     arr2 |-> ArrayCfg("a2elem", <<1>>, <<2>>, <<2>>, TRUE),
     a2elem |-> StringCfg(<<2>>, <<>>),
     uni |-> [kind |-> "Union", schemas |-> <<"u0", "u1">>],
     u0 |-> StringCfg(<<2>>, <<>>),
     u1 |-> NumberCfg(FALSE, <<>>, <<>>, FALSE),
     du |-> [kind |-> "DiscriminatedUnion", discriminant |-> "type",
             options |-> [k \in {"circle", "1"} |->
                            IF k = "circle" THEN "circle" ELSE "sq"]],
     circle |-> [kind |-> "Object"],
     ctype |-> [kind |-> "Literal", value |-> StrV("circle")],
     cradius |-> NumberCfg(FALSE, <<>>, <<>>, TRUE),
     sq |-> [kind |-> "Object"],
     qtype |-> [kind |-> "Literal", value |-> IntV(1)],
     qname |-> StringCfg(<<2>>, <<>>),
     tree |-> [kind |-> "Lazy", schemaFn |-> <<"treeObj", "treeObj2">>],
     treeObj |-> [kind |-> "Object"],
     tvalue |-> StringCfg(<<>>, <<>>),
     tchildren |-> ArrayCfg("tree", <<>>, <<>>, <<>>, FALSE),
     treeObj2 |-> [kind |-> "Object"],
     tvalue2 |-> StringCfg(<<>>, <<>>),
     tchildren2 |-> ArrayCfg("tree", <<>>, <<>>, <<>>, FALSE),
     user |-> [kind |-> "Object"],
     uname |-> StringCfg(<<>>, <<>>),
     uactive |-> [kind |-> "Boolean"],
     ucount |-> NumberCfg(FALSE, <<>>, <<>>, FALSE),
     P |-> [kind |-> "Object"],
     pf |-> StringCfg(<<>>, <<>>),
     pg |-> StringCfg(<<>>, <<>>),
     B |-> [kind |-> "Object"],
     strict |-> [kind |-> "Object"],
     sa |-> NumberCfg(TRUE, <<2>>, <<>>, FALSE),
     sb |-> StringCfg(<<2>>, <<>>),
     loose |-> [kind |-> "Object"],
     la |-> StringCfg(<<>>, <<>>),
     lc |-> NumberCfg(TRUE, <<2>>, <<>>, FALSE),
     outer |-> [kind |-> "Object"],
     mid |-> [kind |-> "Object"],
     inner |-> [kind |-> "Object"],
     nleaf |-> StringCfg(<<2>>, <<>>),
     holder |-> [kind |-> "Object"],
     harr |-> ArrayCfg("helem", <<>>, <<>>, <<>>, FALSE),
     helem |-> StringCfg(<<2>>, <<>>),
     vobj |-> [kind |-> "Object"],
     vv |-> [kind |-> "Void"],
     vn |-> [kind |-> "Nullable", schema |-> "vs"],
     vs |-> StringCfg(<<>>, <<>>),
     vo |-> StringCfg(<<>>, <<>>),
     vd |-> NumberCfg(FALSE, <<>>, <<>>, FALSE),
     uni2 |-> [kind |-> "Union", schemas |-> <<"w0", "w1">>],
     w0 |-> NumberCfg(FALSE, <<>>, <<>>, FALSE),
     w1 |-> [kind |-> "Boolean"],
     uni0 |-> [kind |-> "Union", schemas |-> <<>>],
     uni3 |-> [kind |-> "Union", schemas |-> <<"x0", "x1">>],
     x0 |-> [kind |-> "Nullable", schema |-> "x0s"],
     x0s |-> StringCfg(<<2>>, <<>>),
     x1 |-> NumberCfg(FALSE, <<>>, <<>>, FALSE),
     W |-> [kind |-> "Object"],
     wa |-> StringCfg(<<>>, <<>>),
     wn |-> [kind |-> "Nullable", schema |-> "wns"],
     wns |-> StringCfg(<<>>, <<>>),
     wc |-> NumberCfg(TRUE, <<2>>, <<>>, FALSE),
     M |-> [kind |-> "Object"],
     ma |-> NumberCfg(FALSE, <<>>, <<>>, FALSE),
     mc |-> [kind |-> "Never"],
     me |-> StringCfg(<<>>, <<>>),
     M2 |-> [kind |-> "Object"],
     m2a |-> [kind |-> "Boolean"],
     m2g |-> StringCfg(<<2>>, <<>>),
     ee2 |-> NumberCfg(FALSE, <<>>, <<>>, FALSE),
     ea |-> [kind |-> "Boolean"],
     ee |-> StringCfg(<<2>>, <<>>)]

Nodes == DOMAIN Cfg

Kind(n) == Cfg[n].kind

\* Object(fields): the ObjectSchema a constructor call returns
Object(fields) ==
    [fields |-> fields, strict |-> FALSE, passthrough |-> FALSE,
     catchall |-> NilNode, partial |-> FALSE, deepPartial |-> FALSE,
     required |-> <<>>, pick |-> <<>>, omit |-> <<>>,
     extend |-> EmptyMap, merge |-> NilNode]

Strict(s) == [s EXCEPT !.strict = TRUE, !.passthrough = FALSE]

Passthrough_KeepStrict(s) == [s EXCEPT !.passthrough = TRUE]

Passthrough(s) == [s EXCEPT !.passthrough = TRUE, !.strict = FALSE]

Catchall(s, schema) == [s EXCEPT !.catchall = schema]

Partial(s) == [s EXCEPT !.partial = TRUE]

DeepPartial(s) == [s EXCEPT !.deepPartial = TRUE]

RequiredFields(s, fields) == [s EXCEPT !.required = s.required \o fields]

Pick_Append(s, fields) == [s EXCEPT !.pick = s.pick \o fields]

Pick(s, fields) == [s EXCEPT !.pick = fields]

Omit(s, fields) == [s EXCEPT !.omit = fields]

\* for k, v := range fields { s.extend[k] = v }
Extend(s, fields) ==
    [s EXCEPT !.extend = [k \in DOMAIN s.extend \cup DOMAIN fields |->
                            IF k \in DOMAIN fields THEN fields[k] ELSE s.extend[k]]]

Merge(s, other) == [s EXCEPT !.merge = other]

\* a Go map literal with string keys
MapOf(keys, vals) == [k \in {keys[i] : i \in 1..Len(keys)} |->
                        vals[CHOOSE i \in 1..Len(keys) : keys[i] = k]]

(***************************************************************************)
(* Leaf validators                                                         *)
(***************************************************************************)
\* strings.ToLower on the strings of the model
ToLower(s) == CASE s = "YES" -> "yes" [] s = "T" -> "t" [] OTHER -> s

\* strconv.ParseFloat on the strings of the model: <<ok, halves>>
parseFloat(s) ==
    CASE s = "0" -> <<TRUE, 0>> [] s = "1" -> <<TRUE, 2>> [] OTHER -> <<FALSE, 0>>

\* convertToFloat64: <<float64 in halves, ok>>
convertToFloat64(value) ==
    CASE value.t = "int" -> <<2 * value.v, TRUE>>
      [] value.t = "float64" -> <<value.v, TRUE>>
      [] value.t = "string" ->
            IF parseFloat(value.v)[1] THEN <<parseFloat(value.v)[2], TRUE>>
            ELSE <<0, FALSE>>
      [] OTHER -> <<0, FALSE>>

\* num == math.Trunc(num), num in halves
isInteger(num) == num % 2 = 0

\* convertToBoolean: <<b, ok>>
convertToBoolean(value) ==
    CASE value.t = "bool" -> <<value.v, TRUE>>
      [] value.t = "string" ->
            LET s == ToLower(value.v) IN
            IF s \in {"1", "t", "true"} THEN <<TRUE, TRUE>>
            ELSE IF s \in {"0", "f", "false"} THEN <<FALSE, TRUE>>
            ELSE IF s \in {"yes", "y"} THEN <<TRUE, TRUE>>
            ELSE IF s \in {"no", "n"} THEN <<FALSE, TRUE>>
            ELSE <<FALSE, FALSE>>
      [] value.t = "int" ->
            IF value.v = 0 THEN <<FALSE, TRUE>>
            ELSE IF value.v = 1 THEN <<TRUE, TRUE>>
            ELSE <<FALSE, FALSE>>
      [] value.t = "float64" ->
            IF value.v = 0 THEN <<FALSE, TRUE>>
            ELSE IF value.v = 2 THEN <<TRUE, TRUE>>
            ELSE <<FALSE, FALSE>>
      [] OTHER -> <<FALSE, FALSE>>

\* the errors a list of (condition, error) checks appends, in order
RECURSIVE AppendIf(_)
AppendIf(checks) ==
    IF Len(checks) = 0 THEN <<>>
    ELSE (IF checks[1][1] THEN <<checks[1][2]>> ELSE <<>>) \o AppendIf(Tail(checks))

\* the part of StringSchema.Validate after handleNil
StringBody(c, processedValue, value) ==
    IF processedValue.t # "string"
    THEN InvalidResult(<<ValidationError("", <<"expected string">>, "invalid_type", value)>>)
    ELSE LET str == processedValue.v
             errors == AppendIf(<<
                <<c.minLength # <<>> /\ Len(str) < c.minLength[1],
                  ValidationError("", <<"string must be at least", c.minLength>>,
                                  "too_small", StrV(str))>>,
                <<c.maxLength # <<>> /\ Len(str) > c.maxLength[1],
                  ValidationError("", <<"string must be at most", c.maxLength>>,
                                  "too_big", StrV(str))>> >>)
         IN IF Len(errors) > 0 THEN InvalidResult(errors)
            ELSE ValidResult(StrV(str))

\* the part of NumberSchema.Validate after handleNil
NumberBody(c, processedValue, value) ==
    LET conv == convertToFloat64(processedValue)
        num == conv[1]
    IN IF ~conv[2]
       THEN InvalidResult(<<ValidationError("", <<"expected number">>, "invalid_type", value)>>)
       ELSE LET errors == AppendIf(<<
                  <<c.int /\ ~isInteger(num),
                    ValidationError("", <<"expected integer">>, "invalid_type", FloatV(num))>>,
                  <<c.min # <<>> /\ num < c.min[1],
                    ValidationError("", <<"number must be greater than or equal to", c.min>>,
                                    "too_small", FloatV(num))>>,
                  <<c.max # <<>> /\ num > c.max[1],
                    ValidationError("", <<"number must be less than or equal to", c.max>>,
                                    "too_big", FloatV(num))>>,
                  <<c.positive /\ num <= 0,
                    ValidationError("", <<"number must be positive">>, "too_small", FloatV(num))>>,
                  <<c.negative /\ num >= 0,
                    ValidationError("", <<"number must be negative">>, "too_big", FloatV(num))>>,
                  <<c.nonNeg /\ num < 0,
                    ValidationError("", <<"number must be non-negative">>, "too_small", FloatV(num))>>,
                  <<c.nonPos /\ num > 0,
                    ValidationError("", <<"number must be non-positive">>, "too_big", FloatV(num))>> >>)
            IN IF Len(errors) > 0 THEN InvalidResult(errors)
               ELSE IF c.int THEN ValidResult(IntV(num \div 2))
               ELSE ValidResult(FloatV(num))

\* the part of BooleanSchema.Validate after handleNil
BooleanBody(processedValue, value) ==
    LET conv == convertToBoolean(processedValue)
    IN IF ~conv[2]
       THEN InvalidResult(<<ValidationError("", <<"expected boolean">>, "invalid_type", value)>>)
       ELSE ValidResult(BoolV(conv[1]))

\* the part of LiteralSchema.Validate after handleNil (reflect.DeepEqual)
LiteralBody(c, processedValue, value) ==
    IF processedValue # c.value
    THEN InvalidResult(<<ValidationError("", <<"expected literal value", c.value>>,
                                         "invalid_literal", value)>>)
    ELSE ValidResult(processedValue)

\* the part of EnumSchema.Validate after handleNil
EnumBody(c, processedValue, value) ==
    IF \E i \in 1..Len(c.values) : processedValue = c.values[i]
    THEN ValidResult(processedValue)
    ELSE InvalidResult(<<ValidationError("", <<"expected one of", c.values>>,
                                         "invalid_enum_value", value)>>)

\* NeverSchema.Validate
NeverValidate(value) ==
    InvalidResult(<<ValidationError("", <<"never type should never be used">>,
                                    "invalid_type", value)>>)

(***************************************************************************)
(* The heap: every node's BaseSchema, every ObjectSchema's directives and  *)
(* every LazySchema's cache.  calls counts the invocations of a Lazy       *)
(* node's constructor function; the k-th invocation returns a fresh tree,  *)
(* the k-th entry of the node's schemaFn list.                             *)
(***************************************************************************)
\* what a call of Validate returns, with the heap it leaves behind,
\* the depth of the call stack it needed and whether the stack overflowed
Ret(res, h, depth, ovf) == [res |-> res, h |-> h, depth |-> depth, ovf |-> ovf]

\* the loop state of a composite: heap, errors, validated output
Acc(h, errors, out, depth, ovf) ==
    [h |-> h, errors |-> errors, out |-> out, depth |-> depth, ovf |-> ovf]

TagErrors_Keep(errors, field) == errors

AppendTagged_First(errors, resultErrors, field) ==
    errors \o <<[resultErrors[1] EXCEPT !.field = field]>>

\* err.Field = field, for every err of result.Errors
TagErrors(errors, field) ==
    [j \in 1..Len(errors) |-> [errors[j] EXCEPT !.field = field]]

\* for _, err := range result.Errors { err.Field = field; errors = append(errors, err) }
AppendTagged(errors, resultErrors, field) == errors \o TagErrors(resultErrors, field)

\* fmt.Sprintf("[%d]", i)
IndexField(i) == "[" \o ToString(i) \o "]"

\* fmt.Sprintf("union[%d]", i)
UnionField(i) == "union[" \o ToString(i) \o "]"

MapPut(m, k, v) == [x \in DOMAIN m \cup {k} |-> IF x = k THEN v ELSE m[x]]

\* for k, v := range src { dst[k] = v }
Overlay(dst, src) ==
    [k \in DOMAIN dst \cup DOMAIN src |-> IF k \in DOMAIN src THEN src[k] ELSE dst[k]]

SeqToSet(q) == {q[i] : i \in 1..Len(q)}

Reverse(q) == [i \in 1..Len(q) |-> q[Len(q) + 1 - i]]

\* the order in which a Go map is ranged over is not specified: one call
\* walks every map either in KeyOrder or in its reverse
KeyOrder == <<"a", "active", "b", "c", "children", "count", "d", "e", "f", "g", "n",
              "name", "o", "radius", "type", "v", "value", "x", "y">>

RangeOrder(keys, rev) ==
    LET q == SelectSeq(KeyOrder, LAMBDA k : k \in keys)
    IN IF rev THEN Reverse(q) ELSE q

SelectFields_NoOmit(h, o) ==
    LET s == h.obj[o]
        merged == IF s.merge # NilNode THEN Overlay(s.fields, h.obj[s.merge].fields)
                  ELSE s.fields
        extended == Overlay(merged, s.extend)
    IN IF Len(s.pick) > 0
       THEN [k \in SeqToSet(s.pick) \cap DOMAIN extended |-> extended[k]]
       ELSE extended

SelectFields_MergeExtended(h, o) ==
    LET s == h.obj[o]
        merged == IF s.merge # NilNode
                  THEN Overlay(s.fields,
                               Overlay(h.obj[s.merge].fields, h.obj[s.merge].extend))
                  ELSE s.fields
        extended == Overlay(merged, s.extend)
        picked == IF Len(s.pick) > 0
                  THEN [k \in SeqToSet(s.pick) \cap DOMAIN extended |-> extended[k]]
                  ELSE extended
    IN IF Len(s.omit) > 0
       THEN [k \in DOMAIN picked \ SeqToSet(s.omit) |-> picked[k]]
       ELSE picked

SelectFields_MergeLast(h, o) ==
    LET s == h.obj[o]
        extended == Overlay(s.fields, s.extend)
        merged == IF s.merge # NilNode THEN Overlay(extended, h.obj[s.merge].fields)
                  ELSE extended
        picked == IF Len(s.pick) > 0
                  THEN [k \in SeqToSet(s.pick) \cap DOMAIN merged |-> merged[k]]
                  ELSE merged
    IN IF Len(s.omit) > 0
       THEN [k \in DOMAIN picked \ SeqToSet(s.omit) |-> picked[k]]
       ELSE picked

\* the first part of ObjectSchema.getEffectiveFields: the fresh map built
\* from fields, merge, extend, pick and omit
SelectFields(h, o) ==
    LET s == h.obj[o]
        merged == IF s.merge # NilNode THEN Overlay(s.fields, h.obj[s.merge].fields)
                  ELSE s.fields
        extended == Overlay(merged, s.extend)
        picked == IF Len(s.pick) > 0
                  THEN [k \in SeqToSet(s.pick) \cap DOMAIN extended |-> extended[k]]
                  ELSE extended
    IN IF Len(s.omit) > 0
       THEN [k \in DOMAIN picked \ SeqToSet(s.omit) |-> picked[k]]
       ELSE picked

getSchema_Always(h, l) ==
    [schema |-> Cfg[l].schemaFn[IF h.calls[l] < Len(Cfg[l].schemaFn)
                                THEN h.calls[l] + 1 ELSE Len(Cfg[l].schemaFn)],
     h |-> [h EXCEPT !.cached[l] = Cfg[l].schemaFn[IF h.calls[l] < Len(Cfg[l].schemaFn)
                                                   THEN h.calls[l] + 1
                                                   ELSE Len(Cfg[l].schemaFn)],
                     !.calls[l] = @ + 1]]

schemaFn_Self(h, l) == l

getEffectiveFields_RequiredFirst(h, o) ==
    LET s == h.obj[o]
        fields == SelectFields(h, o)
        requireds == {fields[k] : k \in SeqToSet(s.required) \cap DOMAIN fields}
        base1 == [n \in Nodes |-> IF n \in requireds THEN setRequired(h.base[n])
                                  ELSE h.base[n]]
        optionals == IF s.partial \/ s.deepPartial
                     THEN {fields[k] : k \in DOMAIN fields} ELSE {}
        base2 == [n \in Nodes |-> IF n \in optionals THEN setOptional(base1[n])
                                  ELSE base1[n]]
    IN [fields |-> fields, h |-> [h EXCEPT !.base = base2]]

\* ObjectSchema.getEffectiveFields: the field map, and the heap after the
\* Optional() and Required() calls it makes on the field schemas
getEffectiveFields(h, o) ==
    LET s == h.obj[o]
        fields == SelectFields(h, o)
        optionals == IF s.partial \/ s.deepPartial
                     THEN {fields[k] : k \in DOMAIN fields} ELSE {}
        base1 == [n \in Nodes |-> IF n \in optionals THEN setOptional(h.base[n])
                                  ELSE h.base[n]]
        requireds == {fields[k] : k \in SeqToSet(s.required) \cap DOMAIN fields}
        base2 == [n \in Nodes |-> IF n \in requireds THEN setRequired(base1[n])
                                  ELSE base1[n]]
    IN [fields |-> fields, h |-> [h EXCEPT !.base = base2]]

\* the constructor function of a Lazy node: its next invocation's result
schemaFn(h, l) ==
    LET built == Cfg[l].schemaFn
    IN built[IF h.calls[l] < Len(built) THEN h.calls[l] + 1 ELSE Len(built)]

\* LazySchema.getSchema: the node to validate against and the heap after
getSchema(h, l) ==
    IF h.cached[l] = NilNode
    THEN [schema |-> schemaFn(h, l),
          h |-> [h EXCEPT !.cached[l] = schemaFn(h, l), !.calls[l] = @ + 1]]
    ELSE [schema |-> h.cached[l], h |-> h]

RECURSIVE Validate(_, _, _, _, _)

\* MergeField storing the input's entry in place of the normalized value
MergeField_RawInput(acc, fieldName, fieldValue, r) ==
    Acc(r.h,
        IF ~r.res.valid THEN AppendTagged(acc.errors, r.res.errors, fieldName)
        ELSE acc.errors,
        IF r.res.valid /\ fieldValue # Nil
        THEN MapPut(acc.out, fieldName, fieldValue)
        ELSE acc.out,
        Max2(acc.depth, r.depth), acc.ovf \/ r.ovf)

MergeField_KeepNil(acc, fieldName, fieldValue, r) ==
    Acc(r.h,
        IF ~r.res.valid THEN AppendTagged(acc.errors, r.res.errors, fieldName)
        ELSE acc.errors,
        IF r.res.valid THEN MapPut(acc.out, fieldName, r.res.value) ELSE acc.out,
        Max2(acc.depth, r.depth), acc.ovf \/ r.ovf)

\* what ObjectSchema.Validate does with the result of one known field
MergeField(acc, fieldName, fieldValue, r) ==
    Acc(r.h,
        IF ~r.res.valid THEN AppendTagged(acc.errors, r.res.errors, fieldName)
        ELSE acc.errors,
        IF r.res.valid /\ r.res.value # Nil
        THEN MapPut(acc.out, fieldName, r.res.value)
        ELSE acc.out,
        Max2(acc.depth, r.depth), acc.ovf \/ r.ovf)

\* the loop over the known fields of ObjectSchema.Validate
RECURSIVE ValidateFields(_, _, _, _, _, _, _)
ValidateFields(acc, fields, objMap, keys, i, rev, fuel) ==
    IF i > Len(keys) THEN acc
    ELSE LET fieldName == keys[i]
             fieldValue == IF fieldName \in DOMAIN objMap THEN objMap[fieldName] ELSE Nil
         IN ValidateFields(
               MergeField(acc, fieldName, fieldValue,
                          Validate(acc.h, fields[fieldName], fieldValue, rev, fuel)),
               fields, objMap, keys, i + 1, rev, fuel)

\* what ObjectSchema.Validate does with the catchall's result for one key
MergeCatchall(acc, fieldName, r) ==
    Acc(r.h,
        IF ~r.res.valid THEN AppendTagged(acc.errors, r.res.errors, fieldName)
        ELSE acc.errors,
        IF r.res.valid THEN MapPut(acc.out, fieldName, r.res.value) ELSE acc.out,
        Max2(acc.depth, r.depth), acc.ovf \/ r.ovf)

\* the loop over the input's keys of ObjectSchema.Validate
RECURSIVE ValidateUnknown(_, _, _, _, _, _, _, _)
ValidateUnknown(acc, s, fields, objMap, keys, i, rev, fuel) ==
    IF i > Len(keys) THEN acc
    ELSE LET fieldName == keys[i]
             fieldValue == objMap[fieldName]
             next ==
                IF fieldName \in DOMAIN fields THEN acc
                ELSE IF s.strict
                THEN [acc EXCEPT !.errors = @ \o <<ValidationError(fieldName,
                          <<"unknown field">>, "unrecognized_keys", fieldValue)>>]
                ELSE IF s.catchall # NilNode
                THEN MergeCatchall(acc, fieldName,
                                   Validate(acc.h, s.catchall, fieldValue, rev, fuel))
                ELSE IF s.passthrough
                THEN [acc EXCEPT !.out = MapPut(@, fieldName, fieldValue)]
                ELSE acc
         IN ValidateUnknown(next, s, fields, objMap, keys, i + 1, rev, fuel)

ObjectResult_KeepValue(all) ==
    IF Len(all.errors) > 0
    THEN Ret(ValidationResult(FALSE, all.errors, MapV(all.out)),
             all.h, all.depth + 1, all.ovf)
    ELSE Ret(ValidResult(MapV(all.out)), all.h, all.depth + 1, all.ovf)

\* the end of ObjectSchema.Validate: invalid with every error, or the map
ObjectResult(all) ==
    IF Len(all.errors) > 0
    THEN Ret(InvalidResult(all.errors), all.h, all.depth + 1, all.ovf)
    ELSE Ret(ValidResult(MapV(all.out)), all.h, all.depth + 1, all.ovf)

\* ObjectSchema.Validate
ObjectValidate(h, n, value, rev, fuel) ==
    LET nil == handleNil(h.base[n], value)
        processedValue == nil.value
    IN IF nil.shouldReturn THEN Ret(nil.result, h, 1, FALSE)
       ELSE IF processedValue.t # "map"
       THEN Ret(InvalidResult(<<ValidationError("", <<"expected object">>,
                                                "invalid_type", value)>>), h, 1, FALSE)
       ELSE LET objMap == processedValue.v
                eff == getEffectiveFields(h, n)
            IN ObjectResult(
                  ValidateUnknown(
                     ValidateFields(Acc(eff.h, <<>>, EmptyMap, 0, FALSE), eff.fields,
                                    objMap, RangeOrder(DOMAIN eff.fields, rev), 1,
                                    rev, fuel - 1),
                     h.obj[n], eff.fields, objMap,
                     RangeOrder(DOMAIN objMap, rev), 1, rev, fuel - 1))

\* what the element loops do with the result of the element at position i
MergeElement(acc, i, r) ==
    Acc(r.h,
        IF ~r.res.valid THEN AppendTagged(acc.errors, r.res.errors, IndexField(i - 1))
        ELSE acc.errors,
        IF r.res.valid THEN [acc.out EXCEPT ![i] = r.res.value] ELSE acc.out,
        Max2(acc.depth, r.depth), acc.ovf \/ r.ovf)

\* the end of ArraySchema.Validate and TupleSchema.Validate
SliceResult(all) ==
    IF Len(all.errors) > 0
    THEN Ret(InvalidResult(all.errors), all.h, all.depth + 1, all.ovf)
    ELSE Ret(ValidResult(SliceV(all.out)), all.h, all.depth + 1, all.ovf)

\* the element loops of ArraySchema.Validate and TupleSchema.Validate:
\* position i is validated against schemas[i], skipped when that is nil
RECURSIVE ValidateElements(_, _, _, _, _, _)
ValidateElements(acc, schemas, values, i, rev, fuel) ==
    IF i > Len(values) THEN acc
    ELSE IF schemas[i] = NilNode
    THEN ValidateElements(acc, schemas, values, i + 1, rev, fuel)
    ELSE ValidateElements(
            MergeElement(acc, i, Validate(acc.h, schemas[i], values[i], rev, fuel)),
            schemas, values, i + 1, rev, fuel)

ArrayValidate_FailFast(h, n, value, rev, fuel) ==
    LET s == Cfg[n]
        nil == handleNil(h.base[n], value)
        processedValue == nil.value
    IN IF nil.shouldReturn THEN Ret(nil.result, h, 1, FALSE)
       ELSE IF processedValue.t # "slice"
       THEN Ret(InvalidResult(<<ValidationError("", <<"expected array">>,
                                                "invalid_type", value)>>), h, 1, FALSE)
       ELSE IF s.minLength # <<>> /\ Len(processedValue.v) < s.minLength[1]
       THEN Ret(InvalidResult(<<ValidationError("",
                    <<"array must have at least", s.minLength>>,
                    "too_small", value)>>), h, 1, FALSE)
       ELSE IF s.maxLength # <<>> /\ Len(processedValue.v) > s.maxLength[1]
       THEN Ret(InvalidResult(<<ValidationError("",
                    <<"array must have at most", s.maxLength>>,
                    "too_big", value)>>), h, 1, FALSE)
       ELSE SliceResult(ValidateElements(
               Acc(h,
                   AppendIf(<<
                    <<s.length # <<>> /\ Len(processedValue.v) # s.length[1],
                      ValidationError("", <<"array must have exactly", s.length>>,
                                      "invalid_type", value)>>,
                    <<s.nonempty /\ Len(processedValue.v) = 0,
                      ValidationError("", <<"array must not be empty">>,
                                      "too_small", value)>> >>),
                   [i \in 1..Len(processedValue.v) |-> Nil], 0, FALSE),
               [i \in 1..Len(processedValue.v) |-> s.element],
               processedValue.v, 1, rev, fuel - 1))

\* ArraySchema.Validate
ArrayValidate(h, n, value, rev, fuel) ==
    LET s == Cfg[n]
        nil == handleNil(h.base[n], value)
        processedValue == nil.value
    IN IF nil.shouldReturn THEN Ret(nil.result, h, 1, FALSE)
       ELSE IF processedValue.t # "slice"
       THEN Ret(InvalidResult(<<ValidationError("", <<"expected array">>,
                                                "invalid_type", value)>>), h, 1, FALSE)
       ELSE LET v == processedValue.v
                length == Len(v)
                errors == AppendIf(<<
                    <<s.length # <<>> /\ length # s.length[1],
                      ValidationError("", <<"array must have exactly", s.length>>,
                                      "invalid_type", value)>>,
                    <<s.minLength # <<>> /\ length < s.minLength[1],
                      ValidationError("", <<"array must have at least", s.minLength>>,
                                      "too_small", value)>>,
                    <<s.maxLength # <<>> /\ length > s.maxLength[1],
                      ValidationError("", <<"array must have at most", s.maxLength>>,
                                      "too_big", value)>>,
                    <<s.nonempty /\ length = 0,
                      ValidationError("", <<"array must not be empty">>,
                                      "too_small", value)>> >>)
            IN SliceResult(ValidateElements(
                              Acc(h, errors, [i \in 1..length |-> Nil], 0, FALSE),
                              [i \in 1..length |-> s.element], v, 1, rev, fuel - 1))

TupleValidate_NoRest(h, n, value, rev, fuel) ==
    LET s == Cfg[n]
        nil == handleNil(h.base[n], value)
        processedValue == nil.value
    IN IF nil.shouldReturn THEN Ret(nil.result, h, 1, FALSE)
       ELSE IF processedValue.t # "slice"
       THEN Ret(InvalidResult(<<ValidationError("", <<"expected tuple">>,
                                                "invalid_type", value)>>), h, 1, FALSE)
       ELSE SliceResult(ValidateElements(
               Acc(h,
                   AppendIf(<<
                    <<s.rest = NilNode /\ Len(processedValue.v) # Len(s.elements),
                      ValidationError("", <<"tuple must have exactly", Len(s.elements)>>,
                                      "invalid_type", value)>>,
                    <<s.rest # NilNode /\ Len(processedValue.v) < Len(s.elements),
                      ValidationError("", <<"tuple must have at least", Len(s.elements)>>,
                                      "too_small", value)>> >>),
                   [i \in 1..Len(processedValue.v) |-> Nil], 0, FALSE),
               [i \in 1..Len(processedValue.v) |->
                   IF i <= Len(s.elements) THEN s.elements[i] ELSE NilNode],
               processedValue.v, 1, rev, fuel - 1))

\* TupleSchema.Validate
TupleValidate(h, n, value, rev, fuel) ==
    LET s == Cfg[n]
        nil == handleNil(h.base[n], value)
        processedValue == nil.value
    IN IF nil.shouldReturn THEN Ret(nil.result, h, 1, FALSE)
       ELSE IF processedValue.t # "slice"
       THEN Ret(InvalidResult(<<ValidationError("", <<"expected tuple">>,
                                                "invalid_type", value)>>), h, 1, FALSE)
       ELSE LET v == processedValue.v
                length == Len(v)
                errors == AppendIf(<<
                    <<s.rest = NilNode /\ length # Len(s.elements),
                      ValidationError("", <<"tuple must have exactly", Len(s.elements)>>,
                                      "invalid_type", value)>>,
                    <<s.rest # NilNode /\ length < Len(s.elements),
                      ValidationError("", <<"tuple must have at least", Len(s.elements)>>,
                                      "too_small", value)>> >>)
            IN SliceResult(ValidateElements(
                              Acc(h, errors, [i \in 1..length |-> Nil], 0, FALSE),
                              [i \in 1..length |-> IF i <= Len(s.elements)
                                                   THEN s.elements[i] ELSE s.rest],
                              v, 1, rev, fuel - 1))

RECURSIVE ValidateAlternatives(_, _, _, _, _, _, _)

\* what the loop of UnionSchema.Validate does with the result of alternative
\* i: a valid result is returned, an invalid one adds to allErrors
AlternativeResult(acc, schemas, processedValue, value, i, rev, fuel, r) ==
    IF r.res.valid
    THEN Ret(r.res, r.h, Max2(acc.depth, r.depth) + 1, acc.ovf \/ r.ovf)
    ELSE ValidateAlternatives(
            Acc(r.h, AppendTagged(acc.errors, r.res.errors, UnionField(i - 1)),
                acc.out, Max2(acc.depth, r.depth), acc.ovf \/ r.ovf),
            schemas, processedValue, value, i + 1, rev, fuel)

ValidateAlternatives_AllErrors(acc, schemas, processedValue, value, i, rev, fuel) ==
    IF i > Len(schemas)
    THEN Ret(InvalidResult(acc.errors), acc.h, acc.depth + 1, acc.ovf)
    ELSE AlternativeResult(acc, schemas, processedValue, value, i, rev, fuel,
                           Validate(acc.h, schemas[i], processedValue, rev, fuel))

\* the loop over the alternatives of UnionSchema.Validate, and its end:
\* allErrors is dropped for one invalid_union error
ValidateAlternatives(acc, schemas, processedValue, value, i, rev, fuel) ==
    IF i > Len(schemas)
    THEN Ret(InvalidResult(<<ValidationError("",
                 <<"value does not match any of the union types", Len(schemas)>>,
                 "invalid_union", value)>>), acc.h, acc.depth + 1, acc.ovf)
    ELSE AlternativeResult(acc, schemas, processedValue, value, i, rev, fuel,
                           Validate(acc.h, schemas[i], processedValue, rev, fuel))

UnionValidate_NilToAlternatives(h, n, value, rev, fuel) ==
    ValidateAlternatives(Acc(h, <<>>, EmptyMap, 0, FALSE), Cfg[n].schemas,
                         value, value, 1, rev, fuel - 1)

UnionValidate_Reversed(h, n, value, rev, fuel) ==
    IF handleNil(h.base[n], value).shouldReturn
    THEN Ret(handleNil(h.base[n], value).result, h, 1, FALSE)
    ELSE ValidateAlternatives(Acc(h, <<>>, EmptyMap, 0, FALSE),
                              Reverse(Cfg[n].schemas),
                              handleNil(h.base[n], value).value, value, 1, rev, fuel - 1)

\* UnionSchema.Validate
UnionValidate(h, n, value, rev, fuel) ==
    LET nil == handleNil(h.base[n], value)
    IN IF nil.shouldReturn THEN Ret(nil.result, h, 1, FALSE)
       ELSE ValidateAlternatives(Acc(h, <<>>, EmptyMap, 0, FALSE), Cfg[n].schemas,
                                 nil.value, value, 1, rev, fuel - 1)

\* return schema.Validate(value): the callee's result, one call deeper
Forward(r) == Ret(r.res, r.h, r.depth + 1, r.ovf)

\* fmt.Sprintf("%v", discriminantValue) on the values of the model
Sprintf(value) ==
    CASE value.t = "string" -> value.v
      [] value.t = "int" -> ToString(value.v)
      [] value.t = "bool" -> IF value.v THEN "true" ELSE "false"
      [] value.t = "nil" -> "<nil>"
      [] value.t = "float64" ->
            IF value.v % 2 = 0 THEN ToString(value.v \div 2)
            ELSE ToString(value.v \div 2) \o ".5"
      [] OTHER -> "[...]"

\* the callee's result with every error's field set to field
ForwardTagged(r, field) ==
    Ret([r.res EXCEPT !.errors = TagErrors(r.res.errors, field)], r.h, r.depth + 1, r.ovf)

DiscriminatedUnionValidate_WholeValue(h, n, value, rev, fuel) ==
    LET s == Cfg[n]
        nil == handleNil(h.base[n], value)
        processedValue == nil.value
    IN IF nil.shouldReturn THEN Ret(nil.result, h, 1, FALSE)
       ELSE IF processedValue.t # "map"
       THEN Ret(InvalidResult(<<ValidationError("",
                    <<"expected object for discriminated union">>,
                    "invalid_type", value)>>), h, 1, FALSE)
       ELSE IF s.discriminant \notin DOMAIN processedValue.v
       THEN Ret(InvalidResult(<<ValidationError("",
                    <<"missing discriminant field", s.discriminant>>,
                    "invalid_union", value)>>), h, 1, FALSE)
       ELSE IF Sprintf(processedValue.v[s.discriminant]) \notin DOMAIN s.options
       THEN Ret(InvalidResult(<<ValidationError("",
                    <<"unknown discriminant value",
                      Sprintf(processedValue.v[s.discriminant])>>,
                    "invalid_union", value)>>), h, 1, FALSE)
       ELSE Forward(Validate(h, s.options[Sprintf(processedValue.v[s.discriminant])],
                             processedValue, rev, fuel - 1))

DiscriminatedUnionValidate_Tagged(h, n, value, rev, fuel) ==
    LET s == Cfg[n]
        nil == handleNil(h.base[n], value)
        processedValue == nil.value
    IN IF nil.shouldReturn THEN Ret(nil.result, h, 1, FALSE)
       ELSE IF processedValue.t # "map"
       THEN Ret(InvalidResult(<<ValidationError("",
                    <<"expected object for discriminated union">>,
                    "invalid_type", value)>>), h, 1, FALSE)
       ELSE IF s.discriminant \notin DOMAIN processedValue.v
       THEN Ret(InvalidResult(<<ValidationError("",
                    <<"missing discriminant field", s.discriminant>>,
                    "invalid_union", value)>>), h, 1, FALSE)
       ELSE IF Sprintf(processedValue.v[s.discriminant]) \notin DOMAIN s.options
       THEN Ret(InvalidResult(<<ValidationError("",
                    <<"unknown discriminant value",
                      Sprintf(processedValue.v[s.discriminant])>>,
                    "invalid_union", processedValue.v[s.discriminant])>>), h, 1, FALSE)
       ELSE ForwardTagged(
               Validate(h, s.options[Sprintf(processedValue.v[s.discriminant])],
                        processedValue, rev, fuel - 1),
               Sprintf(processedValue.v[s.discriminant]))

\* DiscriminatedUnionSchema.Validate
DiscriminatedUnionValidate(h, n, value, rev, fuel) ==
    LET s == Cfg[n]
        nil == handleNil(h.base[n], value)
        processedValue == nil.value
    IN IF nil.shouldReturn THEN Ret(nil.result, h, 1, FALSE)
       ELSE IF processedValue.t # "map"
       THEN Ret(InvalidResult(<<ValidationError("",
                    <<"expected object for discriminated union">>,
                    "invalid_type", value)>>), h, 1, FALSE)
       ELSE LET objMap == processedValue.v
            IN IF s.discriminant \notin DOMAIN objMap
               THEN Ret(InvalidResult(<<ValidationError("",
                            <<"missing discriminant field", s.discriminant>>,
                            "invalid_union", value)>>), h, 1, FALSE)
               ELSE LET discriminantValue == objMap[s.discriminant]
                        discriminantStr == Sprintf(discriminantValue)
                    IN IF discriminantStr \notin DOMAIN s.options
                       THEN Ret(InvalidResult(<<ValidationError("",
                                    <<"unknown discriminant value", discriminantStr>>,
                                    "invalid_union", discriminantValue)>>), h, 1, FALSE)
                       ELSE Forward(Validate(h, s.options[discriminantStr],
                                             processedValue, rev, fuel - 1))

\* NullableSchema.Validate
NullableValidate(h, n, value, rev, fuel) ==
    IF value = Nil THEN Ret(ValidResult(Nil), h, 1, FALSE)
    ELSE Forward(Validate(h, Cfg[n].schema, value, rev, fuel - 1))

\* LazySchema.Validate
LazyValidate(h, n, value, rev, fuel) ==
    LET nil == handleNil(h.base[n], value)
    IN IF nil.shouldReturn THEN Ret(nil.result, h, 1, FALSE)
       ELSE LET got == getSchema(h, n)
            IN Forward(Validate(got.h, got.schema, value, rev, fuel - 1))

\* a validator without children: handleNil, then the variant's own checks
LeafValidate(h, n, value) ==
    LET c == Cfg[n]
        nil == handleNil(h.base[n], value)
        processedValue == nil.value
    IN IF nil.shouldReturn THEN nil.result
       ELSE CASE c.kind = "String" -> StringBody(c, processedValue, value)
              [] c.kind = "Number" -> NumberBody(c, processedValue, value)
              [] c.kind = "Boolean" -> BooleanBody(processedValue, value)
              [] c.kind = "Literal" -> LiteralBody(c, processedValue, value)
              [] c.kind = "Enum" -> EnumBody(c, processedValue, value)
              [] c.kind = "Any" -> ValidResult(processedValue)
              [] c.kind = "Unknown" -> ValidResult(processedValue)
              [] c.kind = "Void" -> ValidResult(Nil)

\* Schema.Validate, dispatched on the node's dynamic type.  A call made with
\* no stack left (fuel 0) is a stack overflow.
Validate(h, n, value, rev, fuel) ==
    IF fuel <= 0 THEN Ret(ZeroResult, h, 0, TRUE)
    ELSE CASE Kind(n) = "Object" -> ObjectValidate(h, n, value, rev, fuel)
           [] Kind(n) = "Array" -> ArrayValidate(h, n, value, rev, fuel)
           [] Kind(n) = "Tuple" -> TupleValidate(h, n, value, rev, fuel)
           [] Kind(n) = "Union" -> UnionValidate(h, n, value, rev, fuel)
           [] Kind(n) = "DiscriminatedUnion" ->
                 DiscriminatedUnionValidate(h, n, value, rev, fuel)
           [] Kind(n) = "Nullable" -> NullableValidate(h, n, value, rev, fuel)
           [] Kind(n) = "Lazy" -> LazyValidate(h, n, value, rev, fuel)
           [] Kind(n) = "Never" -> Ret(NeverValidate(value), h, 1, FALSE)
           [] OTHER -> Ret(LeafValidate(h, n, value), h, 1, FALSE)

(***************************************************************************)
(* The sequential program: one caller configures a node with the builder   *)
(* methods and validates values against the schema trees.                  *)
(***************************************************************************)
\* the stack a validation may use, in calls of Validate
StackLimit == 16

\* the nodes the caller applies Optional(), Required() and Default() to
Buildable == {"str", "int1", "bool", "lit", "enum", "any", "unk", "void", "never",
              "nullable", "arr", "tup", "uni", "du", "tree", "user", "ucount",
              "pg", "sa", "lc", "nleaf", "helem", "vv", "uni2", "uni0", "tupr", "arr2",
              "uni3"}

\* the schema trees the caller validates against besides the node it
\* builds: the Objects that node is a field (or the catchall) of
RootsFor(n) ==
    CASE n = "ucount" -> {"user"}
      [] n = "pg" -> {"P", "B"}
      [] n = "sa" -> {"strict"}
      [] n = "lc" -> {"loose"}
      [] n = "nleaf" -> {"outer"}
      [] n = "helem" -> {"holder"}
      [] n = "vv" -> {"vobj"}
      [] OTHER -> {}

Leaf1 == MapOf(<<"value">>, <<StrV("a")>>)
Tree1 == MapV(Leaf1)
Tree2 == MapV(MapOf(<<"value", "children">>, <<StrV("a"), SliceV(<<Tree1, Tree1>>)>>))
Tree3 == MapV(MapOf(<<"value", "children">>, <<StrV("ab"), SliceV(<<Tree2>>)>>))
BadTree == MapV(MapOf(<<"value", "children">>,
                      <<StrV("a"), SliceV(<<MapV(EmptyMap), Tree1, IntV(0)>>)>>))

TreeValues == {Tree1, Tree2, Tree3, BadTree}

\* a value three Object levels deep: {a: {b: {c: leaf}}}
Nested(leaf) ==
    MapV(MapOf(<<"a">>, <<MapV(MapOf(<<"b">>, <<MapV(MapOf(<<"c">>, <<leaf>>))>>))>>))

Scalars == {StrV("a"), StrV("ab"), StrV("YES"), StrV("1"), IntV(0), IntV(1),
            FloatV(1), BoolV(TRUE)}

\* the values a node is validated against
InputsFor(n) ==
    {Nil} \cup
    CASE n = "user" ->
            {MapV(MapOf(<<"name">>, <<StrV("ab")>>)),
             MapV(MapOf(<<"name", "count">>, <<StrV("ab"), IntV(1)>>)),
             MapV(MapOf(<<"name", "active", "x">>, <<IntV(0), StrV("YES"), IntV(1)>>)),
             MapV(EmptyMap), StrV("a")}
      [] n = "P" ->
            {MapV(EmptyMap), MapV(MapOf(<<"f">>, <<StrV("a")>>)),
             MapV(MapOf(<<"g">>, <<StrV("a")>>)),
             MapV(MapOf(<<"f", "g">>, <<StrV("a"), IntV(0)>>))}
      [] n = "B" ->
            {MapV(EmptyMap), MapV(MapOf(<<"g">>, <<StrV("a")>>))}
      [] n = "strict" ->
            {MapV(MapOf(<<"a", "b">>, <<IntV(1), StrV("ab")>>)),
             MapV(MapOf(<<"a", "b">>, <<FloatV(1), StrV("a")>>)),
             MapV(MapOf(<<"a", "x", "y">>, <<FloatV(1), IntV(0), Nil>>)),
             MapV(MapOf(<<"a", "b", "x">>, <<IntV(1), StrV("ab"), StrV("a")>>))}
      [] n = "loose" ->
            {MapV(MapOf(<<"a">>, <<StrV("a")>>)),
             MapV(MapOf(<<"a", "x">>, <<StrV("a"), IntV(1)>>)),
             MapV(MapOf(<<"a", "x", "y">>, <<IntV(0), FloatV(1), Nil>>)),
             MapV(MapOf(<<"x", "y">>, <<IntV(0), StrV("a")>>))}
      [] n = "outer" ->
            {Nested(StrV("a")), Nested(StrV("ab")), Nested(IntV(0)),
             MapV(MapOf(<<"a">>, <<MapV(MapOf(<<"b">>, <<MapV(EmptyMap)>>))>>)),
             MapV(MapOf(<<"a">>, <<MapV(EmptyMap)>>))}
      [] n = "holder" ->
            {MapV(MapOf(<<"f">>, <<SliceV(<<StrV("ab"), StrV("a")>>)>>)),
             MapV(MapOf(<<"f">>, <<SliceV(<<StrV("ab")>>)>>)),
             MapV(MapOf(<<"f">>, <<SliceV(<<IntV(0), StrV("a")>>)>>)),
             MapV(EmptyMap)}
      [] n = "vobj" ->
            {MapV(MapOf(<<"v">>, <<IntV(1)>>)),
             MapV(MapOf(<<"v", "n", "o", "d">>, <<StrV("a"), StrV("a"), StrV("ab"), IntV(1)>>)),
             MapV(MapOf(<<"v", "n">>, <<BoolV(TRUE), Nil>>)),
             MapV(EmptyMap)}
      [] n = "W" ->
            {MapV(EmptyMap),
             MapV(MapOf(<<"a", "n", "e", "x">>,
                        <<StrV("ab"), StrV("a"), StrV("ab"), IntV(0)>>)),
             MapV(MapOf(<<"a", "c", "x", "y">>, <<IntV(1), IntV(2), Nil, IntV(2)>>)),
             MapV(MapOf(<<"a", "n", "e", "x">>,
                        <<BoolV(TRUE), Nil, StrV("ab"), FloatV(1)>>))}
      [] n = "tree" -> TreeValues \cup {MapV(MapOf(<<"value", "children">>,
                                                   <<StrV("a"), StrV("a")>>))}
      [] n = "du" ->
            {MapV(MapOf(<<"type", "radius">>, <<StrV("circle"), FloatV(11)>>)),
             MapV(MapOf(<<"type">>, <<StrV("circle")>>)),
             MapV(MapOf(<<"type">>, <<StrV("square")>>)),
             MapV(MapOf(<<"radius">>, <<IntV(1)>>)), StrV("a"),
             MapV(MapOf(<<"type", "name">>, <<IntV(1), StrV("ab")>>)),
             MapV(MapOf(<<"type", "name">>, <<StrV("1"), StrV("a")>>)),
             MapV(MapOf(<<"type", "radius">>, <<Nil, IntV(1)>>)),
             SliceV(<<StrV("circle")>>)}
      [] n = "arr" ->
            {SliceV(<<>>), SliceV(<<StrV("a")>>), SliceV(<<StrV("a"), IntV(0)>>), StrV("a")}
      [] n = "tup" ->
            {SliceV(<<StrV("a"), IntV(1)>>), SliceV(<<StrV("a")>>),
             SliceV(<<IntV(0), StrV("a"), StrV("a")>>), IntV(0)}
      [] n = "tupr" ->
            {SliceV(<<StrV("ab"), IntV(1), BoolV(TRUE), StrV("YES")>>),
             SliceV(<<StrV("ab"), StrV("1")>>), SliceV(<<StrV("ab")>>),
             SliceV(<<StrV("a")>>), SliceV(<<>>),
             SliceV(<<IntV(0), StrV("a"), IntV(0), BoolV(TRUE), StrV("a")>>),
             StrV("ab")}
      [] n = "arr2" ->
            {SliceV(<<>>), SliceV(<<StrV("ab")>>), SliceV(<<StrV("ab"), StrV("ab")>>),
             SliceV(<<StrV("a"), StrV("ab"), IntV(0)>>),
             SliceV(<<IntV(0), StrV("a")>>), StrV("ab")}
      [] OTHER -> Scalars

\* the values the caller passes to Default()
DefaultsFor(n) ==
    {IntV(0), StrV("ab")} \cup
    CASE Kind(n) = "Object" -> {MapV(MapOf(<<"name">>, <<StrV("ab")>>))}
      [] Kind(n) = "Lazy" -> {Tree1}
      [] Kind(n) = "DiscriminatedUnion" ->
            {MapV(MapOf(<<"type", "radius">>, <<StrV("circle"), IntV(1)>>))}
      [] Kind(n) \in {"Array", "Tuple"} -> {SliceV(<<StrV("a"), IntV(1)>>)}
      [] OTHER -> {BoolV(TRUE)}

\* a call walks maps in either order only where it meets a map
OrdersFor(n) ==
    IF Kind(n) \in {"Object", "DiscriminatedUnion", "Lazy"} THEN BOOLEAN ELSE {FALSE}

NoCall == [op |-> "none"]

\* the schema trees as the program constructs them
InitHeap ==
    [base |-> [n \in Nodes |->
                 CASE n = "uactive" -> setDefault(BaseSchema, BoolV(TRUE))
                   [] n = "ucount" -> setDefault(BaseSchema, IntV(0))
                   [] n \in {"tchildren", "tchildren2", "vo", "wa", "wc"} ->
                         setOptional(BaseSchema)
                   [] n = "ma" -> setDefault(BaseSchema, StrV("ab"))
                   [] n = "vd" -> setDefault(BaseSchema, IntV(0))
                   [] OTHER -> BaseSchema],
     obj |-> [o \in ObjectNodes |->
                 CASE o = "user" -> Object(MapOf(<<"name", "active", "count">>,
                                                 <<"uname", "uactive", "ucount">>))
                   [] o = "P" -> RequiredFields(
                                    Partial(Object(MapOf(<<"f", "g">>, <<"pf", "pg">>))),
                                    <<"f">>)
                   [] o = "B" -> Object(MapOf(<<"g">>, <<"pg">>))
                   [] o = "strict" -> Strict(Object(MapOf(<<"a", "b">>, <<"sa", "sb">>)))
                   [] o = "loose" -> Catchall(Object(MapOf(<<"a">>, <<"la">>)), "lc")
                   [] o = "outer" -> Object(MapOf(<<"a">>, <<"mid">>))
                   [] o = "mid" -> Object(MapOf(<<"b">>, <<"inner">>))
                   [] o = "inner" -> Object(MapOf(<<"c">>, <<"nleaf">>))
                   [] o = "holder" -> Object(MapOf(<<"f">>, <<"harr">>))
                   [] o = "vobj" -> Object(MapOf(<<"v", "n", "o", "d">>,
                                                 <<"vv", "vn", "vo", "vd">>))
                   [] o = "W" -> Object(MapOf(<<"a", "n">>, <<"wa", "wn">>))
                   [] o = "M" ->
                         RequiredFields(Partial(Omit(Pick(Merge(Extend(
                            Object(MapOf(<<"a", "c">>, <<"ma", "mc">>)),
                            MapOf(<<"e">>, <<"me">>)), "M2"),
                            <<"e", "g">>), <<"a">>)), <<"c">>)
                   [] o = "M2" -> Pick(Object(MapOf(<<"a", "g">>, <<"m2a", "m2g">>)),
                                       <<"g">>)
                   [] o = "circle" -> Object(MapOf(<<"type", "radius">>,
                                                   <<"ctype", "cradius">>))
                   [] o = "sq" -> Object(MapOf(<<"type", "name">>, <<"qtype", "qname">>))
                   [] o = "treeObj" -> Object(MapOf(<<"value", "children">>,
                                                    <<"tvalue", "tchildren">>))
                   [] o = "treeObj2" -> Object(MapOf(<<"value", "children">>,
                                                     <<"tvalue2", "tchildren2">>))],
     cached |-> [l \in LazyNodes |-> NilNode],
     calls |-> [l \in LazyNodes |-> 0]]

NoThreads == <<>>

Init ==
    /\ heap = InitHeap
    /\ focus \in Buildable
    /\ last = NoCall
    /\ threads = NoThreads

\* focus.Optional()
OptionalCall ==
    /\ heap' = [heap EXCEPT !.base[focus] = setOptional(@)]
    /\ last' = NoCall
    /\ UNCHANGED <<focus, threads>>

\* focus.Required()
RequiredCall ==
    /\ heap' = [heap EXCEPT !.base[focus] = setRequired(@)]
    /\ last' = NoCall
    /\ UNCHANGED <<focus, threads>>

\* focus.Default(value)
DefaultCall(value) ==
    /\ heap' = [heap EXCEPT !.base[focus] = setDefault(@, value)]
    /\ last' = NoCall
    /\ UNCHANGED <<focus, threads>>

\* the caller has the result r of n.Validate(value)
Returned(n, value, rev, r) ==
    /\ heap' = r.h
    /\ last' = [op |-> "Validate", node |-> n, input |-> value, rev |-> rev,
                res |-> r.res, depth |-> r.depth, ovf |-> r.ovf, pre |-> heap]

\* n.Validate(value)
ValidateCall(n, value, rev) ==
    /\ Returned(n, value, rev, Validate(heap, n, value, rev, StackLimit))
    /\ UNCHANGED <<focus, threads>>

\* o.Keyof()
KeyofCall(o, rev) ==
    LET eff == getEffectiveFields(heap, o)
    IN /\ heap' = eff.h
       /\ last' = [op |-> "Keyof", node |-> o, rev |-> rev,
                   keys |-> RangeOrder(DOMAIN eff.fields, rev), pre |-> heap]
       /\ UNCHANGED <<focus, threads>>

Targets == RootsFor(focus) \cup {focus}

Next ==
    \/ OptionalCall
    \/ RequiredCall
    \/ \E value \in DefaultsFor(focus) : DefaultCall(value)
    \/ \E n \in Targets : \E value \in InputsFor(n) : \E rev \in OrdersFor(n) :
          ValidateCall(n, value, rev)
    \/ \E o \in Targets \cap ObjectNodes : \E rev \in BOOLEAN : KeyofCall(o, rev)

Spec == Init /\ [][Next]_vars

(***************************************************************************)
(* Properties                                                              *)
(***************************************************************************)
LastValidate == last.op = "Validate"

\* the BaseSchema the validated node had when the last call was made
LastBase == last.pre.base[last.node]

NoValue(errors) == [j \in 1..Len(errors) |-> [errors[j] EXCEPT !.value = Nil]]

\* the same validity, normalized value and errors; an error's value field
\* is left out, a validator reports the nil it was called with there
SameOutcome(r1, r2) ==
    /\ r1.valid = r2.valid
    /\ r1.value = r2.value
    /\ NoValue(r1.errors) = NoValue(r2.errors)

IsRequiredFailure(res) ==
    /\ ~res.valid
    /\ Len(res.errors) = 1
    /\ res.errors[1].code = "required"
    /\ res.errors[1].field = ""

\* the result of the node's validation of its default as a present value
PresentDefault ==
    Validate(last.pre, last.node, LastBase.defaultValue, last.rev, StackLimit)

\* the result of the schema a Lazy node resolves to, validating nil
LazyInnerNil ==
    LET got == getSchema(last.pre, last.node)
    IN Validate(got.h, got.schema, Nil, last.rev, StackLimit)

\* C1 as stated: for every node kind, once Default(d) has been called,
\* Validate(nil) is valid with value d exactly as given.
C1_DefaultVerbatim ==
    (LastValidate /\ last.input = Nil /\ LastBase.hasDefault)
        => /\ last.res.valid
           /\ last.res.value = LastBase.defaultValue

\* C1 amended: once Default(d) has been called, Validate(nil) validates d in
\* place of the absent value: it has the outcome of Validate(d) (validity,
\* normalized value, errors) and leaves the same heap; Nullable returns
\* valid nil, Never is invalid and Lazy has the outcome its cached schema
\* gives for nil, whatever the default.
C1_DefaultIsValidated ==
    (LastValidate /\ last.input = Nil /\ LastBase.hasDefault)
        => CASE Kind(last.node) = "Nullable" -> last.res = ValidResult(Nil)
             [] Kind(last.node) = "Never" ->
                   /\ ~last.res.valid
                   /\ Len(last.res.errors) = 1
                   /\ last.res.errors[1].code = "invalid_type"
             [] Kind(last.node) = "Lazy" ->
                   /\ last.res = LazyInnerNil.res
                   /\ heap = LazyInnerNil.h
             [] OTHER ->
                   /\ SameOutcome(last.res, PresentDefault.res)
                   /\ heap = PresentDefault.h

\* a Number().Default(0) validated against nil gives 0.0, not the 0 given
C1_Witness ==
    /\ LastValidate /\ last.input = Nil /\ LastBase.hasDefault
    /\ Kind(last.node) = "Number"
    /\ LastBase.defaultValue = IntV(0)
    /\ last.res.valid
    /\ last.res.value = FloatV(0)

C3_Resolution ==
    IF LastBase.hasDefault
    THEN IF Kind(last.node) = "Lazy" THEN last.res = LazyInnerNil.res
         ELSE SameOutcome(last.res, PresentDefault.res)
    ELSE IF LastBase.isOptional THEN last.res = ValidResult(Nil)
    ELSE IsRequiredFailure(last.res)

\* C3 as stated: for a node of any kind, Validate(nil) uses the default if
\* there is one, else is valid with nil if the node is optional, else fails
\* with one required error.
C3_EveryNode ==
    (LastValidate /\ last.input = Nil)
        => IF LastBase.hasDefault THEN SameOutcome(last.res, PresentDefault.res)
           ELSE IF LastBase.isOptional THEN last.res = ValidResult(Nil)
           ELSE IsRequiredFailure(last.res)

C3_State ==
    (LastValidate /\ last.input = Nil /\ Kind(last.node) \notin {"Nullable", "Never"})
        => C3_Resolution

\* what the builder calls do to the flags and the default of the node
C3_Calls ==
    /\ OptionalCall =>
          /\ heap'.base[focus].isOptional /\ ~heap'.base[focus].isRequired
          /\ heap'.base[focus].hasDefault = heap.base[focus].hasDefault
          /\ heap'.base[focus].defaultValue = heap.base[focus].defaultValue
    /\ RequiredCall =>
          /\ heap'.base[focus].isRequired /\ ~heap'.base[focus].isOptional
          /\ heap'.base[focus].hasDefault = heap.base[focus].hasDefault
          /\ heap'.base[focus].defaultValue = heap.base[focus].defaultValue
    /\ \A value \in DefaultsFor(focus) :
          DefaultCall(value) =>
             /\ heap'.base[focus].hasDefault
             /\ heap'.base[focus].defaultValue = value
             /\ heap'.base[focus].isOptional = heap.base[focus].isOptional
             /\ heap'.base[focus].isRequired = heap.base[focus].isRequired
    /\ \A n \in Nodes : heap.base[n].hasDefault => heap'.base[n].hasDefault

\* C3 amended: for a node of any kind but Nullable and Never, Validate(nil)
\* is resolved in this order: a default, if Default was ever called, takes
\* the place of the absent value and is validated (a Lazy node hands the nil
\* to its cached schema); else an optional node is valid with nil; else the
\* node fails with one required error with an empty field.  Optional() and
\* Required() never remove a default, Default() never changes the flags.
C3_NilResolution == [](C3_State) /\ [][C3_Calls]_vars

\* a node that is optional and has a default, validated against nil
C3_Witness ==
    /\ LastValidate /\ last.input = Nil
    /\ Kind(last.node) \notin {"Nullable", "Never", "Lazy"}
    /\ LastBase.hasDefault /\ LastBase.isOptional
    /\ last.res.valid /\ last.res.value # Nil

\* C5: Validate and Keyof never change schema configuration: after the call
\* every node's isOptional, isRequired, hasDefault, defaultValue and every
\* Object's settings are what they were before it, shared children included.
C5_ConfigUnchanged ==
    (last.op \in {"Validate", "Keyof"})
        => /\ heap.base = last.pre.base
           /\ heap.obj = last.pre.obj

\* the Lazy node was constructed before the last call
LastCached == last.pre.cached[last.node] # NilNode

C7_State ==
    /\ \A l \in LazyNodes :
          /\ heap.calls[l] <= 1
          /\ (heap.calls[l] = 0) <=> (heap.cached[l] = NilNode)
    /\ (LastValidate /\ Kind(last.node) = "Lazy" /\ last.input # Nil /\ LastCached)
          => /\ heap.cached = last.pre.cached
             /\ heap.calls = last.pre.calls
             /\ last.res = Validate(last.pre, last.pre.cached[last.node], last.input,
                                    last.rev, StackLimit).res

C7_Step ==
    \A l \in LazyNodes :
       heap.cached[l] # NilNode => heap'.cached[l] = heap.cached[l]

\* C7: over any sequence of validations made one after another, nested ones
\* of a self-referential schema included, the constructor function of a
\* Lazy node is invoked at most once: the node it returned is cached on
\* first use, the cache never changes afterwards, and every later
\* validation has the outcome of the cached node's validation.
C7_ConstructedOnce == [](C7_State) /\ [][C7_Step]_vars

\* a tree with children validated when the cache was already populated
C7_Witness ==
    /\ LastValidate /\ last.node = "tree" /\ LastCached
    /\ last.input = Tree2
    /\ last.res.valid
    /\ heap.calls["tree"] = 1

\* C8: validating a finite value against the self-referential Lazy schema
\* ends with an outcome, and the call stack it needs is bounded by the
\* nesting depth of the input value (no stack overflow).
C8_Terminates ==
    (LastValidate /\ last.node = "tree")
        => /\ ~last.ovf
           /\ last.depth <= 2 * ValueDepth(last.input) + 2
           /\ last.res.valid \in BOOLEAN

\* the tree of three levels is valid, nine calls deep
C8_Witness ==
    /\ LastValidate /\ last.node = "tree"
    /\ last.input = Tree3
    /\ last.res.valid
    /\ last.depth = 9
    /\ ~last.ovf

\* the sum of f[k] over the keys k of S
RECURSIVE SumOver(_, _)
SumOver(f, S) ==
    IF S = {} THEN 0
    ELSE LET k == CHOOSE x \in S : TRUE
         IN f[k] + SumOver(f, S \ {k})

\* the last call validated a map against an Object
LastObject == LastValidate /\ Kind(last.node) = "Object" /\ last.input.t = "map"

\* the effective field map of the last call
LastEff == getEffectiveFields(last.pre, last.node)

FieldInput(k) == IF k \in DOMAIN last.input.v THEN last.input.v[k] ELSE Nil

\* what the field's own schema returns for the input's entry
FieldRes(k) ==
    Validate(LastEff.h, LastEff.fields[k], FieldInput(k), last.rev, StackLimit).res

FieldErrs ==
    [k \in DOMAIN LastEff.fields |->
        IF FieldRes(k).valid THEN 0 ELSE Len(FieldRes(k).errors)]

UnknownKeys == DOMAIN last.input.v \ DOMAIN LastEff.fields

\* what the catchall schema returns for the value of an unknown key
CatchallRes(k) ==
    Validate(LastEff.h, last.pre.obj[last.node].catchall, last.input.v[k],
             last.rev, StackLimit).res

\* one error for every unknown key the Object rejects
RejectedOnce ==
    [k \in UnknownKeys |->
        IF last.pre.obj[last.node].strict THEN 1
        ELSE IF last.pre.obj[last.node].catchall # NilNode /\ ~CatchallRes(k).valid
        THEN 1 ELSE 0]

\* the errors the Object adds for every unknown key
UnknownErrs ==
    [k \in UnknownKeys |->
        IF last.pre.obj[last.node].strict THEN 1
        ELSE IF last.pre.obj[last.node].catchall # NilNode /\ ~CatchallRes(k).valid
        THEN Len(CatchallRes(k).errors) ELSE 0]

\* every error of every failing field is in the list, under the field's name
AllFieldErrors ==
    \A k \in DOMAIN LastEff.fields :
       ~FieldRes(k).valid =>
          \A j \in 1..Len(FieldRes(k).errors) :
             \E i \in 1..Len(last.res.errors) :
                last.res.errors[i] = [FieldRes(k).errors[j] EXCEPT !.field = k]

\* C9 as stated: the error list holds every error of every failing field
\* plus one error per rejected unknown key, its length is the sum of those
\* counts, and the outcome is valid exactly when the list is empty.
C9_OneErrorPerKey ==
    LastObject
        => /\ Len(last.res.errors) = SumOver(FieldErrs, DOMAIN LastEff.fields)
                                     + SumOver(RejectedOnce, UnknownKeys)
           /\ AllFieldErrors
           /\ last.res.valid <=> (Len(last.res.errors) = 0)

\* C9 amended: Object.Validate on a map never stops at the first failure:
\* the list holds every error of every failing field, one unrecognized_keys
\* error per unknown key of a strict Object and every error the catchall
\* schema returns for an unknown key (which may be more than one); its
\* length is the sum of those counts and the outcome is valid exactly when
\* the list is empty.
C9_CompleteErrors ==
    LastObject
        => /\ Len(last.res.errors) = SumOver(FieldErrs, DOMAIN LastEff.fields)
                                     + SumOver(UnknownErrs, UnknownKeys)
           /\ AllFieldErrors
           /\ last.pre.obj[last.node].strict =>
                 \A k \in UnknownKeys :
                    \E i \in 1..Len(last.res.errors) :
                       /\ last.res.errors[i].field = k
                       /\ last.res.errors[i].code = "unrecognized_keys"
           /\ last.res.valid <=> (Len(last.res.errors) = 0)

\* a failing field, an unknown key the catchall rejects with two errors and
\* one it rejects with one: four errors
C9_Witness ==
    /\ LastObject /\ last.node = "loose"
    /\ \E k \in UnknownKeys : UnknownErrs[k] = 2
    /\ \E k \in DOMAIN LastEff.fields : FieldErrs[k] = 1
    /\ Len(last.res.errors) = 4
    /\ ~last.res.valid

LeafKinds == {"String", "Number", "Boolean", "Literal", "Enum", "Any", "Unknown",
              "Void", "Never"}

\* the errors of the list that carry the field name k
ErrorsOf(k) == SelectSeq(last.res.errors, LAMBDA e : e.field = k)

\* C10: when a field of an Object whose schema is a leaf fails, the errors
\* it returned are in the list with the field equal to the declared field
\* name exactly, for every name of the effective field map; no error of
\* the list has an empty field.
C10_FieldNames ==
    LastObject
        => /\ \A k \in DOMAIN LastEff.fields :
                 (Kind(LastEff.fields[k]) \in LeafKinds /\ ~FieldRes(k).valid)
                    => ErrorsOf(k) = [j \in 1..Len(FieldRes(k).errors) |->
                                        [FieldRes(k).errors[j] EXCEPT !.field = k]]
           /\ \A i \in 1..Len(last.res.errors) :
                 last.res.errors[i].field \in DOMAIN LastEff.fields \cup UnknownKeys

\* the integer field "a" of the strict Object fails with two errors
C10_Witness ==
    /\ LastObject /\ last.node = "strict"
    /\ Kind(LastEff.fields["a"]) = "Number"
    /\ Len(FieldRes("a").errors) = 2
    /\ Len(ErrorsOf("a")) = 2
    /\ ErrorsOf("a")[1].code = "invalid_type"
    /\ ErrorsOf("a")[2].code = "too_small"

(***************************************************************************)
(* Concurrent validations.  Every thread runs one Validate call on the     *)
(* shared schema trees; a step is one access of a shared field (a write of *)
(* a flag by Optional()/Required(), the test and the assignment of a Lazy  *)
(* node's cache) or the validation of one field, which reads the flags.    *)
(* No builder is called: the trees are fully configured.                   *)
(***************************************************************************)
NumThreads == 2

Threads == 1..NumThreads

\* the locals of a goroutine that has not called Validate yet
Idle ==
    [pc |-> "idle", node |-> NilNode, input |-> Nil, rev |-> FALSE,
     fields |-> EmptyMap, keys |-> <<>>, errors |-> <<>>, out |-> EmptyMap,
     schema |-> NilNode, res |-> ZeroResult]

\* the trees and the inputs of the concurrent calls
ConcObjects == {"P"}

ConcInputs(n) ==
    IF n \in ConcObjects
    THEN {Nil, MapV(EmptyMap), MapV(MapOf(<<"f">>, <<StrV("a")>>)),
          MapV(MapOf(<<"g">>, <<StrV("a")>>))}
    ELSE {Nil, Tree1, MapV(EmptyMap)}

InitConc ==
    /\ heap = InitHeap
    /\ focus = NilNode
    /\ last = NoCall
    /\ threads = [t \in Threads |-> Idle]

\* return result
Done(th, result) == [th EXCEPT !.pc = "done", !.res = result]

\* ObjectSchema.Validate up to the fresh map of getEffectiveFields
BeginObject(t, o, value, rev) ==
    /\ threads[t].pc = "idle"
    /\ LET hn == handleNil(heap.base[o], value)
           th == [threads[t] EXCEPT !.node = o, !.input = value, !.rev = rev]
       IN threads' = [threads EXCEPT ![t] =
             IF hn.shouldReturn THEN Done(th, hn.result)
             ELSE IF hn.value.t # "map"
             THEN Done(th, InvalidResult(<<ValidationError("", <<"expected object">>,
                                                           "invalid_type", value)>>))
             ELSE [th EXCEPT !.pc = "partial", !.input = hn.value,
                             !.fields = SelectFields(heap, o),
                             !.keys = IF heap.obj[o].partial \/ heap.obj[o].deepPartial
                                      THEN RangeOrder(DOMAIN SelectFields(heap, o), rev)
                                      ELSE <<>>]]
    /\ UNCHANGED <<heap, focus, last>>

\* the field schema the loop of the thread is at
Current(t) == threads[t].fields[Head(threads[t].keys)]

\* v.Optional(): s.isOptional = true
OptionalWrite1(t) ==
    /\ threads[t].pc = "partial" /\ threads[t].keys # <<>>
    /\ heap' = [heap EXCEPT !.base[Current(t)].isOptional = TRUE]
    /\ threads' = [threads EXCEPT ![t].pc = "partial2"]
    /\ UNCHANGED <<focus, last>>

\* v.Optional(): s.isRequired = false
OptionalWrite2(t) ==
    /\ threads[t].pc = "partial2"
    /\ heap' = [heap EXCEPT !.base[Current(t)].isRequired = FALSE]
    /\ threads' = [threads EXCEPT ![t].pc = "partial", ![t].keys = Tail(@)]
    /\ UNCHANGED <<focus, last>>

\* the partial loop is over: for _, key := range s.required
EndPartial(t) ==
    /\ threads[t].pc = "partial" /\ threads[t].keys = <<>>
    /\ threads' = [threads EXCEPT
          ![t].pc = "required",
          ![t].keys = SelectSeq(heap.obj[threads[t].node].required,
                                LAMBDA k : k \in DOMAIN threads[t].fields)]
    /\ UNCHANGED <<heap, focus, last>>

\* schema.Required(): s.isRequired = true
RequiredWrite1(t) ==
    /\ threads[t].pc = "required" /\ threads[t].keys # <<>>
    /\ heap' = [heap EXCEPT !.base[Current(t)].isRequired = TRUE]
    /\ threads' = [threads EXCEPT ![t].pc = "required2"]
    /\ UNCHANGED <<focus, last>>

\* schema.Required(): s.isOptional = false
RequiredWrite2(t) ==
    /\ threads[t].pc = "required2"
    /\ heap' = [heap EXCEPT !.base[Current(t)].isOptional = FALSE]
    /\ threads' = [threads EXCEPT ![t].pc = "required", ![t].keys = Tail(@)]
    /\ UNCHANGED <<focus, last>>

\* getEffectiveFields returns: for fieldName, fieldSchema := range fields
EndRequired(t) ==
    /\ threads[t].pc = "required" /\ threads[t].keys = <<>>
    /\ threads' = [threads EXCEPT
          ![t].pc = "fields",
          ![t].keys = RangeOrder(DOMAIN threads[t].fields, threads[t].rev)]
    /\ UNCHANGED <<heap, focus, last>>

\* the loop state acc goes back to the locals of the thread
Merged(t, acc) ==
    /\ heap' = acc.h
    /\ threads' = [threads EXCEPT ![t].errors = acc.errors, ![t].out = acc.out,
                                  ![t].keys = Tail(@)]

\* one turn of the loop over the known fields
ValidateField(t) ==
    /\ threads[t].pc = "fields" /\ threads[t].keys # <<>>
    /\ LET th == threads[t]
           fieldName == Head(th.keys)
           fieldValue == IF fieldName \in DOMAIN th.input.v THEN th.input.v[fieldName]
                         ELSE Nil
       IN Merged(t, MergeField(Acc(heap, th.errors, th.out, 0, FALSE), fieldName,
                               fieldValue,
                               Validate(heap, th.fields[fieldName], fieldValue,
                                        th.rev, StackLimit)))
    /\ UNCHANGED <<focus, last>>

\* the call of the thread returns r
Finished(t, r) ==
    /\ heap' = r.h
    /\ threads' = [threads EXCEPT ![t] = Done(@, r.res)]

\* the unknown keys and the end of ObjectSchema.Validate
EndFields(t) ==
    /\ threads[t].pc = "fields" /\ threads[t].keys = <<>>
    /\ LET th == threads[t]
       IN Finished(t, ObjectResult(
             ValidateUnknown(Acc(heap, th.errors, th.out, 0, FALSE),
                             heap.obj[th.node], th.fields, th.input.v,
                             RangeOrder(DOMAIN th.input.v, th.rev), 1, th.rev,
                             StackLimit)))
    /\ UNCHANGED <<focus, last>>

\* LazySchema.Validate up to the call of getSchema
BeginLazy(t, l, value) ==
    /\ threads[t].pc = "idle"
    /\ LET hn == handleNil(heap.base[l], value)
           th == [threads[t] EXCEPT !.node = l, !.input = value]
       IN threads' = [threads EXCEPT ![t] =
             IF hn.shouldReturn THEN Done(th, hn.result)
             ELSE [th EXCEPT !.pc = "lazyCheck"]]
    /\ UNCHANGED <<heap, focus, last>>

\* if s.cached == nil
LazyCheck(t) ==
    /\ threads[t].pc = "lazyCheck"
    /\ threads' = [threads EXCEPT ![t].pc =
          IF heap.cached[threads[t].node] = NilNode THEN "lazyCall" ELSE "lazyReturn"]
    /\ UNCHANGED <<heap, focus, last>>

\* s.schemaFn()
LazyCall(t) ==
    /\ threads[t].pc = "lazyCall"
    /\ threads' = [threads EXCEPT ![t].pc = "lazyStore",
                                  ![t].schema = schemaFn(heap, threads[t].node)]
    /\ heap' = [heap EXCEPT !.calls[threads[t].node] = @ + 1]
    /\ UNCHANGED <<focus, last>>

\* s.cached = (what schemaFn returned)
LazyStore(t) ==
    /\ threads[t].pc = "lazyStore"
    /\ heap' = [heap EXCEPT !.cached[threads[t].node] = threads[t].schema]
    /\ threads' = [threads EXCEPT ![t].pc = "lazyReturn"]
    /\ UNCHANGED <<focus, last>>

\* return s.cached
LazyReturn(t) ==
    /\ threads[t].pc = "lazyReturn"
    /\ threads' = [threads EXCEPT ![t].pc = "lazyForward",
                                  ![t].schema = heap.cached[threads[t].node]]
    /\ UNCHANGED <<heap, focus, last>>

\* s.getSchema().Validate(value); the inputs have no children, the call
\* does not come back to the Lazy node
LazyForward(t) ==
    /\ threads[t].pc = "lazyForward"
    /\ Finished(t, Forward(Validate(heap, threads[t].schema, threads[t].input,
                                    threads[t].rev, StackLimit - 1)))
    /\ UNCHANGED <<focus, last>>

NextConc ==
    \E t \in Threads :
       \/ \E o \in ConcObjects : \E value \in ConcInputs(o) : \E rev \in BOOLEAN :
             BeginObject(t, o, value, rev)
       \/ OptionalWrite1(t)
       \/ OptionalWrite2(t)
       \/ EndPartial(t)
       \/ RequiredWrite1(t)
       \/ RequiredWrite2(t)
       \/ EndRequired(t)
       \/ ValidateField(t)
       \/ EndFields(t)
       \/ \E l \in LazyNodes : \E value \in ConcInputs(l) : BeginLazy(t, l, value)
       \/ LazyCheck(t)
       \/ LazyCall(t)
       \/ LazyStore(t)
       \/ LazyReturn(t)
       \/ LazyForward(t)

SpecConc == InitConc /\ [][NextConc]_vars

\* the outcome of the call of thread t when no other call runs
Serial(t) ==
    Validate(InitHeap, threads[t].node, threads[t].input, threads[t].rev,
             StackLimit).res

Returned1(t) == threads[t].pc = "done"

\* C4: concurrent Validate calls on one configured tree return what they
\* return when run one after another; for the Object with Partial() and
\* RequiredFields("f"), no validation of an input without f succeeds.
C4_AsIfSerial ==
    \A t \in Threads :
       (Returned1(t) /\ threads[t].node \in ConcObjects)
          => /\ SameOutcome(threads[t].res, Serial(t))
             /\ (threads[t].input.t = "map" /\ "f" \notin DOMAIN threads[t].input.v)
                   => ~threads[t].res.valid

\* C6: when validations of one Lazy node start together on an empty cache,
\* the constructor function is invoked at most once and every caller
\* validates against the same cached node.
C6_OneConstruction ==
    /\ \A l \in LazyNodes : heap.calls[l] <= 1
    /\ \A t, u \in Threads :
          (/\ Returned1(t) /\ Returned1(u)
           /\ threads[t].node \in LazyNodes /\ threads[u].node = threads[t].node
           /\ threads[t].schema # NilNode /\ threads[u].schema # NilNode)
             => threads[t].schema = threads[u].schema

(***************************************************************************)
(* Error paths, idempotence                                                *)
(***************************************************************************)
\* the last call validated {a: {b: {c: leaf}}} with a leaf the schema of c
\* rejects, against the Object three levels deep
DeepLeafFails ==
    /\ LastValidate /\ last.node = "outer"
    /\ \E leaf \in {StrV("a"), IntV(0)} :
          /\ last.input = Nested(leaf)
          /\ ~Validate(last.pre, "nleaf", leaf, last.rev, StackLimit).res.valid

\* C11: a leaf failing three Object levels deep reaches the caller of the
\* outermost Object as a single error whose field is the deepest field
\* name, c.
C11_DeepestName ==
    DeepLeafFails
        => /\ Len(last.res.errors) = 1
           /\ last.res.errors[1].field = "c"

\* a path that holds an outer and an inner segment is neither empty nor
\* one of the two segments alone
HoldsBoth(field, outerSegment, innerSegment) ==
    field \notin {"", outerSegment, innerSegment}

\* C12: error paths compose from outermost to innermost: the error of a
\* failing array element i inside Object field f carries f and [i], the
\* error of field b of an Object nested under field a carries a and b.
C12_PathsCompose ==
    /\ (LastValidate /\ last.node = "holder" /\ last.input.t = "map"
           /\ "f" \in DOMAIN last.input.v)
          => \A i \in 1..Len(last.input.v["f"].v) :
                ~Validate(last.pre, "helem", last.input.v["f"].v[i], last.rev,
                          StackLimit).res.valid
                   => \E j \in 1..Len(last.res.errors) :
                         HoldsBoth(last.res.errors[j].field, "f", IndexField(i - 1))
    /\ (LastValidate /\ last.node = "outer" /\ last.input.t = "map"
           /\ "a" \in DOMAIN last.input.v
           /\ ~Validate(last.pre, "mid", last.input.v["a"], last.rev,
                        StackLimit).res.valid)
          => \A j \in 1..Len(last.res.errors) :
                HoldsBoth(last.res.errors[j].field, "a", "b")

\* the outcome of validating the value the last call returned
Again == Validate(heap, last.node, last.res.value, last.rev, StackLimit).res

\* C13: for every schema and every input it accepts, validating the
\* returned normalized value again through the same schema is valid and
\* returns the same value.
C13_Idempotent ==
    (LastValidate /\ last.res.valid)
        => /\ Again.valid
           /\ Again.value = last.res.value

\* the settings of the Object the last call validated against
LastSettings == last.pre.obj[last.node]

\* what the policy the claim C14 describes does with the unknown key k
PolicyApplied(k) ==
    IF LastSettings.strict
    THEN /\ Len(ErrorsOf(k)) = 1
         /\ ErrorsOf(k)[1].code = "unrecognized_keys"
    ELSE IF LastSettings.catchall # NilNode
    THEN IF CatchallRes(k).valid
         THEN /\ Len(ErrorsOf(k)) = 0
              /\ last.res.valid =>
                    IF CatchallRes(k).value = Nil
                    THEN k \notin DOMAIN last.res.value.v
                    ELSE /\ k \in DOMAIN last.res.value.v
                         /\ last.res.value.v[k] = CatchallRes(k).value
         ELSE ErrorsOf(k) = [j \in 1..Len(CatchallRes(k).errors) |->
                               [CatchallRes(k).errors[j] EXCEPT !.field = k]]
    ELSE IF LastSettings.passthrough
    THEN /\ Len(ErrorsOf(k)) = 0
         /\ last.res.valid => /\ k \in DOMAIN last.res.value.v
                              /\ last.res.value.v[k] = last.input.v[k]
    ELSE /\ Len(ErrorsOf(k)) = 0
         /\ last.res.valid => k \notin DOMAIN last.res.value.v

\* C14: for every input key outside the effective field map one policy
\* applies, in this order: strict gives one unrecognized_keys error under
\* the key; else a catchall validates the value and merges it like a known
\* field (errors under the key, a nil normalized value left out); else
\* passthrough copies the raw value; else the key is dropped silently.
C14_UnknownKeyPolicy ==
    LastObject => \A k \in UnknownKeys : PolicyApplied(k)

\* C15: a known field that validates to a nil normalized value is no key
\* of the Object's normalized output, and every known field with a non-nil
\* normalized value is in the output under its name with that value.
C15_NilOmitted ==
    (LastObject /\ last.res.valid)
        => \A k \in DOMAIN LastEff.fields :
              IF FieldRes(k).value = Nil
              THEN k \notin DOMAIN last.res.value.v
              ELSE /\ k \in DOMAIN last.res.value.v
                   /\ last.res.value.v[k] = FieldRes(k).value

\* the optional field o is absent and left out, the default of d is filled in
C15_Witness ==
    /\ LastObject /\ last.node = "vobj" /\ last.res.valid
    /\ "o" \notin DOMAIN last.input.v
    /\ FieldRes("o") = ValidResult(Nil)
    /\ "o" \notin DOMAIN last.res.value.v
    /\ last.res.value.v["d"] = FloatV(0)

(***************************************************************************)
(* Object composition: the caller configures the Object W with the builder *)
(* methods of ObjectSchema, then validates against it and asks for its     *)
(* keys.                                                                   *)
(***************************************************************************)
\* the longest list of names RequiredFields calls may build up
MaxRequired == 2

\* the arguments of the builder calls
PickArgs == {<<>>, <<"a", "zz">>, <<"n", "c", "e">>}

OmitArgs == {<<>>, <<"c", "zz">>}

RequiredArgs == {<<"a">>, <<"n", "zz">>}

ExtendArgs == {MapOf(<<"a", "e">>, <<"ea", "ee">>)}

MergeArgs == {"M"}

CatchallArgs == {"wc"}

InitBuild ==
    /\ heap = InitHeap
    /\ focus = "W"
    /\ last = NoCall
    /\ threads = NoThreads

\* the Object is still being configured: nothing was validated against it
Configuring == last = NoCall

\* s.strict = true; s.passthrough = false
StrictCall ==
    /\ Configuring
    /\ heap' = [heap EXCEPT !.obj[focus] = Strict(@)]
    /\ UNCHANGED <<focus, last, threads>>

\* s.passthrough = true; s.strict = false
PassthroughCall ==
    /\ Configuring
    /\ heap' = [heap EXCEPT !.obj[focus] = Passthrough(@)]
    /\ UNCHANGED <<focus, last, threads>>

\* s.catchall = schema
CatchallCall(schema) ==
    /\ Configuring
    /\ heap' = [heap EXCEPT !.obj[focus] = Catchall(@, schema)]
    /\ UNCHANGED <<focus, last, threads>>

\* s.partial = true
PartialCall ==
    /\ Configuring
    /\ heap' = [heap EXCEPT !.obj[focus] = Partial(@)]
    /\ UNCHANGED <<focus, last, threads>>

\* s.deepPartial = true
DeepPartialCall ==
    /\ Configuring
    /\ heap' = [heap EXCEPT !.obj[focus] = DeepPartial(@)]
    /\ UNCHANGED <<focus, last, threads>>

\* s.required = append(s.required, fields...)
RequiredFieldsCall(fields) ==
    /\ Configuring
    /\ Len(heap.obj[focus].required) + Len(fields) <= MaxRequired
    /\ heap' = [heap EXCEPT !.obj[focus] = RequiredFields(@, fields)]
    /\ UNCHANGED <<focus, last, threads>>

\* s.pick = fields
PickCall(fields) ==
    /\ Configuring
    /\ heap' = [heap EXCEPT !.obj[focus] = Pick(@, fields)]
    /\ UNCHANGED <<focus, last, threads>>

\* s.omit = fields
OmitCall(fields) ==
    /\ Configuring
    /\ heap' = [heap EXCEPT !.obj[focus] = Omit(@, fields)]
    /\ UNCHANGED <<focus, last, threads>>

\* s.extend[k] = v for every entry of fields
ExtendCall(fields) ==
    /\ Configuring
    /\ heap' = [heap EXCEPT !.obj[focus] = Extend(@, fields)]
    /\ UNCHANGED <<focus, last, threads>>

\* s.merge = other
MergeCall(other) ==
    /\ Configuring
    /\ heap' = [heap EXCEPT !.obj[focus] = Merge(@, other)]
    /\ UNCHANGED <<focus, last, threads>>

NextBuild ==
    \/ StrictCall
    \/ PassthroughCall
    \/ \E schema \in CatchallArgs : CatchallCall(schema)
    \/ PartialCall
    \/ DeepPartialCall
    \/ \E fields \in RequiredArgs : RequiredFieldsCall(fields)
    \/ \E fields \in PickArgs : PickCall(fields)
    \/ \E fields \in OmitArgs : OmitCall(fields)
    \/ \E fields \in ExtendArgs : ExtendCall(fields)
    \/ \E other \in MergeArgs : MergeCall(other)
    \/ \E value \in InputsFor(focus) : ValidateCall(focus, value, FALSE)
    \/ \E rev \in BOOLEAN : KeyofCall(focus, rev)

SpecBuild == InitBuild /\ [][NextBuild]_vars

\* the names of RequiredFields that are in the effective field map
NamedRequired == SeqToSet(LastSettings.required) \cap DOMAIN LastEff.fields

\* the BaseSchema of the field k when its Validate is called
FieldBase(k) == LastEff.h.base[LastEff.fields[k]]

LastPartial == LastSettings.partial \/ LastSettings.deepPartial

\* C16 as stated: a field named in RequiredFields, without a default, that
\* the input lacks fails with a required error on it, whatever Partial,
\* DeepPartial and Optional() did; with Partial every other field accepts
\* absence.
C16_AsStated ==
    LastObject
        => /\ \A f \in NamedRequired \ DOMAIN last.input.v :
                 ~FieldBase(f).hasDefault
                    => \E j \in 1..Len(last.res.errors) :
                          /\ last.res.errors[j].field = f
                          /\ last.res.errors[j].code = "required"
           /\ LastPartial
                 => \A k \in (DOMAIN LastEff.fields \ NamedRequired) \ DOMAIN last.input.v :
                       Len(ErrorsOf(k)) = 0

\* C16 amended: a field named in RequiredFields and present in the
\* effective field map, without a default, that the input lacks gives
\* exactly one required error under its name, whatever Partial, DeepPartial
\* and Optional() did, unless its schema is a Nullable (which accepts the
\* absence) or a Never (which gives its invalid_type error); with Partial or
\* DeepPartial the named fields are the required ones, every other field is
\* optional, and such a field accepts absence if it has no default and is
\* not a Never.
C16_RequiredWins ==
    LastObject
        => /\ \A f \in NamedRequired \ DOMAIN last.input.v :
                 ~FieldBase(f).hasDefault
                    => CASE Kind(LastEff.fields[f]) = "Nullable" -> Len(ErrorsOf(f)) = 0
                         [] Kind(LastEff.fields[f]) = "Never" ->
                               /\ Len(ErrorsOf(f)) = 1
                               /\ ErrorsOf(f)[1].code = "invalid_type"
                         [] OTHER ->
                               /\ Len(ErrorsOf(f)) = 1
                               /\ ErrorsOf(f)[1].code = "required"
           /\ \A f \in NamedRequired :
                 FieldBase(f).isRequired /\ ~FieldBase(f).isOptional
           /\ LastPartial
                 => \A k \in DOMAIN LastEff.fields \ NamedRequired :
                       /\ FieldBase(k).isOptional /\ ~FieldBase(k).isRequired
                       /\ (/\ k \notin DOMAIN last.input.v
                           /\ ~FieldBase(k).hasDefault
                           /\ Kind(LastEff.fields[k]) # "Never")
                             => /\ Len(ErrorsOf(k)) = 0
                                /\ last.res.valid => k \notin DOMAIN last.res.value.v

\* Partial and RequiredFields("a") on the empty input: a required error
\* under a, and the absence of e, which Partial made optional, is accepted
C16_Witness ==
    /\ LastObject /\ last.input = MapV(EmptyMap)
    /\ LastSettings.partial
    /\ "a" \in NamedRequired
    /\ Len(ErrorsOf("a")) = 1 /\ ErrorsOf("a")[1].code = "required"
    /\ "e" \in DOMAIN LastEff.fields \ NamedRequired
    /\ ~last.pre.base[LastEff.fields["e"]].isOptional
    /\ Len(ErrorsOf("e")) = 0

\* the last call derived the effective field map of an Object
LastDerived == LastObject \/ last.op = "Keyof"

MergeKeys ==
    IF LastSettings.merge # NilNode THEN DOMAIN last.pre.obj[LastSettings.merge].fields
    ELSE {}

\* base, Merge-target and Extend keys, restricted to the Pick names when
\* there are any, minus the Omit names
ExpectedKeys ==
    LET all == DOMAIN LastSettings.fields \cup MergeKeys \cup DOMAIN LastSettings.extend
        picked == IF Len(LastSettings.pick) > 0 THEN all \cap SeqToSet(LastSettings.pick)
                  ELSE all
    IN picked \ SeqToSet(LastSettings.omit)

\* C17: the effective key set of an Object is the union of the base,
\* Merge-target and Extend keys, restricted to the Pick names when Pick is
\* non-empty, minus the Omit names; a picked name that does not exist is
\* dropped without an error, a name picked and omitted is absent.
C17_KeySet ==
    /\ (last.op = "Keyof")
          => /\ SeqToSet(last.keys) = ExpectedKeys
             /\ Len(last.keys) = Cardinality(ExpectedKeys)
    /\ LastObject
          => /\ DOMAIN LastEff.fields = ExpectedKeys
             /\ \A j \in 1..Len(last.res.errors) :
                   last.res.errors[j].field \in ExpectedKeys \cup DOMAIN last.input.v

\* Keyof with Merge(M), Pick("n", "c", "e") and Omit("c", "zz"): e does not
\* exist, c is picked and omitted, n is the only key
C17_Witness ==
    /\ last.op = "Keyof"
    /\ LastSettings.merge = "M" /\ LastSettings.extend = EmptyMap
    /\ LastSettings.pick = <<"n", "c", "e">>
    /\ LastSettings.omit = <<"c", "zz">>
    /\ last.keys = <<"n">>

\* the schema of the field k by precedence: Extend, Merge target, base
Chosen(k) ==
    IF k \in DOMAIN LastSettings.extend THEN LastSettings.extend[k]
    ELSE IF k \in MergeKeys THEN last.pre.obj[LastSettings.merge].fields[k]
    ELSE LastSettings.fields[k]

\* what the schema chosen by precedence returns for the input's entry
ChosenRes(k) ==
    Validate(LastEff.h, Chosen(k), FieldInput(k), last.rev, StackLimit).res

C18_State ==
    /\ LastDerived => \A k \in DOMAIN LastEff.fields : LastEff.fields[k] = Chosen(k)
    /\ LastObject
          => \A k \in ExpectedKeys :
                /\ ErrorsOf(k) = IF ChosenRes(k).valid THEN <<>>
                                 ELSE [j \in 1..Len(ChosenRes(k).errors) |->
                                         [ChosenRes(k).errors[j] EXCEPT !.field = k]]
                /\ (last.res.valid /\ ChosenRes(k).value # Nil)
                      => last.res.value.v[k] = ChosenRes(k).value

\* Merge() leaves the Extend fields alone and Extend() the Merge target
C18_Calls ==
    /\ \A other \in MergeArgs :
          MergeCall(other) => /\ heap'.obj[focus].merge = other
                              /\ heap'.obj[focus].extend = heap.obj[focus].extend
    /\ \A fields \in ExtendArgs :
          ExtendCall(fields) => /\ heap'.obj[focus].merge = heap.obj[focus].merge
                                /\ \A k \in DOMAIN fields :
                                      heap'.obj[focus].extend[k] = fields[k]

\* C18: when a field name is defined by the base fields, the Merge target
\* and Extend, the effective field map uses Extend's schema if Extend
\* defines the name, else the Merge target's, else the base one, in
\* whichever order Merge() and Extend() were called.
C18_Precedence == [](C18_State) /\ [][C18_Calls]_vars

\* a is a String in the base, a Number in the Merge target and a Boolean in
\* Extend: true is accepted as the Boolean
C18_Witness ==
    /\ LastObject /\ last.res.valid
    /\ LastSettings.merge = "M" /\ "a" \in DOMAIN LastSettings.extend
    /\ "a" \in DOMAIN LastSettings.fields /\ "a" \in MergeKeys
    /\ Kind(Chosen("a")) = "Boolean"
    /\ last.input.v["a"] = BoolV(TRUE)
    /\ last.res.value.v["a"] = BoolV(TRUE)

\* the last call validated a non-nil value against a Union
LastUnion == LastValidate /\ Kind(last.node) = "Union" /\ last.input # Nil

\* what the alternative i of the Union returns for the input
AlternativeRes(i) ==
    Validate(last.pre, Cfg[last.node].schemas[i], last.input, last.rev, StackLimit).res

\* the alternatives that accept the input
Accepting == {i \in 1..Len(Cfg[last.node].schemas) : AlternativeRes(i).valid}

\* C19: Union.Validate on a non-nil value returns exactly the outcome of
\* the first alternative, in declaration order, that accepts the value,
\* whatever the later alternatives would return.
C19_FirstAccepting ==
    (LastUnion /\ Accepting # {})
        => \E i \in Accepting :
              /\ \A j \in Accepting : i <= j
              /\ last.res = AlternativeRes(i)

\* Union(Number, Boolean) on 1: both accept, the Number's 1.0 is returned,
\* not the Boolean's true
C19_Witness ==
    /\ LastUnion /\ last.node = "uni2"
    /\ last.input = IntV(1)
    /\ Accepting = {1, 2}
    /\ AlternativeRes(2).value = BoolV(TRUE)
    /\ last.res = ValidResult(FloatV(2))

\* C20: when no alternative of a Union accepts a non-nil value, the outcome
\* is invalid with exactly one error, of code invalid_union, with an empty
\* field and a message that states the number of alternatives tried; no
\* union[i] error of an alternative is in it.  A Union with no alternative
\* is included.
C20_SummaryError ==
    (LastUnion /\ Accepting = {})
        => /\ ~last.res.valid
           /\ Len(last.res.errors) = 1
           /\ last.res.errors[1].code = "invalid_union"
           /\ last.res.errors[1].field = ""
           /\ last.res.errors[1].message =
                 <<"value does not match any of the union types",
                   Len(Cfg[last.node].schemas)>>
           /\ last.res.errors[1].value = last.input

\* Union(String().Min, Number) on true: both alternatives reject it
C20_Witness ==
    /\ LastUnion /\ last.node = "uni"
    /\ last.input = BoolV(TRUE)
    /\ ~AlternativeRes(1).valid /\ ~AlternativeRes(2).valid
    /\ Len(last.res.errors) = 1
    /\ last.res.errors[1].message[2] = 2

(***************************************************************************)
(* Discriminated unions                                                    *)
(***************************************************************************)
LastDU == LastValidate /\ Kind(last.node) = "DiscriminatedUnion"

\* the value the last call worked on after handleNil
LastProcessed == handleNil(LastBase, last.input).value

\* the last call got past handleNil with a map
LastOnMap ==
    /\ LastDU
    /\ ~handleNil(LastBase, last.input).shouldReturn
    /\ LastProcessed.t = "map"

\* the last call found its discriminant and the option it names
LastMatched ==
    /\ LastOnMap
    /\ Cfg[last.node].discriminant \in DOMAIN LastProcessed.v
    /\ Sprintf(LastProcessed.v[Cfg[last.node].discriminant])
          \in DOMAIN Cfg[last.node].options

\* the call returned one error of this code without calling any Validate
\* and without touching the schema trees
OneErrorNoBranch(code) ==
    /\ ~last.res.valid
    /\ Len(last.res.errors) = 1
    /\ last.res.errors[1].code = code
    /\ last.depth = 1
    /\ heap = last.pre

\* C21: on a map, a DiscriminatedUnion answers a missing discriminant key
\* with one invalid_union error, and a discriminant whose string form is no
\* key of the options with one invalid_union error whose value is the
\* discriminant value; neither validates a branch.  A value that is no map
\* is rejected with one invalid_type error.
C21_DiscriminantErrors ==
    LastDU /\ ~handleNil(LastBase, last.input).shouldReturn =>
        LET s == Cfg[last.node]
            pv == LastProcessed
        IN /\ pv.t # "map" => OneErrorNoBranch("invalid_type")
           /\ pv.t = "map" /\ s.discriminant \notin DOMAIN pv.v =>
                 OneErrorNoBranch("invalid_union")
           /\ LastOnMap /\ s.discriminant \in DOMAIN pv.v /\ ~LastMatched =>
                 /\ OneErrorNoBranch("invalid_union")
                 /\ last.res.errors[1].value = pv.v[s.discriminant]

C21_Witness ==
    /\ LastDU
    /\ last.input = MapV(MapOf(<<"type">>, <<StrV("square")>>))
    /\ OneErrorNoBranch("invalid_union")
    /\ last.res.errors[1].value = StrV("square")

\* C22: when the string form of the discriminant names an option, the
\* DiscriminatedUnion returns what that branch returns for the whole value:
\* the same validity, errors (fields unchanged) and value, one call deeper,
\* leaving the schema trees as the branch alone leaves them.  A circle
\* without its radius has exactly one error: field radius, code required.
C22_BranchVerbatim ==
    /\ LastMatched =>
          LET s == Cfg[last.node]
              branch == s.options[Sprintf(LastProcessed.v[s.discriminant])]
              r == Validate(last.pre, branch, LastProcessed, last.rev, StackLimit - 1)
          IN /\ last.res = r.res
             /\ heap = r.h
             /\ last.depth = r.depth + 1
    /\ LastDU /\ last.input = MapV(MapOf(<<"type">>, <<StrV("circle")>>)) =>
          /\ ~last.res.valid
          /\ Len(last.res.errors) = 1
          /\ last.res.errors[1].field = "radius"
          /\ last.res.errors[1].code = "required"

C22_Witness ==
    /\ LastMatched
    /\ last.input = MapV(MapOf(<<"type", "name">>, <<IntV(1), StrV("ab")>>))
    /\ last.res.valid
    /\ last.res.value = last.input

(***************************************************************************)
(* Arrays and tuples                                                       *)
(***************************************************************************)
\* the last call got past handleNil with a sequence
LastOnSlice(kind) ==
    /\ LastValidate
    /\ Kind(last.node) = kind
    /\ ~handleNil(LastBase, last.input).shouldReturn
    /\ LastProcessed.t = "slice"

\* the schema position i (from 1) of the last sequence is validated
\* against: NilNode when the position has none
PositionSchema(i) ==
    LET s == Cfg[last.node]
    IN IF s.kind = "Array" THEN s.element
       ELSE IF i <= Len(s.elements) THEN s.elements[i]
       ELSE s.rest

\* what the schema of position i returns for element i on its own
PositionRes(i) ==
    Validate(last.pre, PositionSchema(i), LastProcessed.v[i], last.rev, StackLimit - 1).res

\* the field and code of every error, in order
Brief(errors) == [j \in 1..Len(errors) |-> <<errors[j].field, errors[j].code>>]

\* the element errors of positions i.., each tagged with its index
RECURSIVE PositionErrors(_)
PositionErrors(i) ==
    IF i > Len(LastProcessed.v) THEN <<>>
    ELSE IF PositionSchema(i) = NilNode THEN PositionErrors(i + 1)
    ELSE [j \in 1..Len(PositionRes(i).errors) |->
            <<IndexField(i - 1), PositionRes(i).errors[j].code>>]
         \o PositionErrors(i + 1)

\* the output of a valid sequence: as long as the input, position by position
\* the value the position's schema returns
OutputByPosition ==
    /\ last.res.value.t = "slice"
    /\ Len(last.res.value.v) = Len(LastProcessed.v)
    /\ \A i \in 1..Len(LastProcessed.v) :
          /\ PositionSchema(i) # NilNode
          /\ last.res.value.v[i] = PositionRes(i).value

\* the length errors TupleSchema.Validate owes the last sequence
TupleLengthErrors ==
    LET s == Cfg[last.node]
        length == Len(LastProcessed.v)
    IN IF s.rest = NilNode /\ length # Len(s.elements) THEN << <<"", "invalid_type">> >>
       ELSE IF s.rest # NilNode /\ length < Len(s.elements) THEN << <<"", "too_small">> >>
       ELSE <<>>

\* C23: a Tuple reports a length that differs from the fixed count as
\* invalid_type without Rest, a length below it as too_small with Rest and
\* no length error otherwise; then every position below the fixed count is
\* validated against its own schema and every later one against Rest, each
\* error tagged [index], none left out; a valid result is as long as the
\* input.
C23_Tuple ==
    LastOnSlice("Tuple") =>
        /\ Brief(last.res.errors) = TupleLengthErrors \o PositionErrors(1)
        /\ last.res.valid <=> Len(last.res.errors) = 0
        /\ last.res.valid => OutputByPosition

C23_Witness ==
    /\ LastOnSlice("Tuple")
    /\ Cfg[last.node].rest # NilNode
    /\ last.input = SliceV(<<StrV("ab"), IntV(1), BoolV(TRUE), StrV("YES")>>)
    /\ last.res.valid
    /\ Len(last.res.value.v) = 4
    /\ last.res.value.v[4] = BoolV(TRUE)

\* the length errors ArraySchema.Validate owes the last sequence
ArrayLengthErrors ==
    LET s == Cfg[last.node]
        length == Len(LastProcessed.v)
    IN (IF s.length # <<>> /\ length # s.length[1]
        THEN << <<"", "invalid_type">> >> ELSE <<>>)
       \o (IF s.minLength # <<>> /\ length < s.minLength[1]
           THEN << <<"", "too_small">> >> ELSE <<>>)
       \o (IF s.maxLength # <<>> /\ length > s.maxLength[1]
           THEN << <<"", "too_big">> >> ELSE <<>>)
       \o (IF s.nonempty /\ length = 0 THEN << <<"", "too_small">> >> ELSE <<>>)

\* C24: an Array validates every element whatever its length checks say:
\* its errors are one error per violated length constraint (exact, min,
\* max, nonempty) and then every element error tagged [index], by ascending
\* index; without errors the output is as long as the input and holds each
\* element's normalized value.
C24_Array ==
    LastOnSlice("Array") =>
        /\ Brief(last.res.errors) = ArrayLengthErrors \o PositionErrors(1)
        /\ last.res.valid <=> Len(last.res.errors) = 0
        /\ last.res.valid => OutputByPosition

C24_Witness ==
    /\ LastOnSlice("Array")
    /\ last.input = SliceV(<<StrV("a"), StrV("ab"), IntV(0)>>)
    /\ Brief(last.res.errors) =
          << <<"", "invalid_type">>, <<"", "too_big">>,
             <<"[0]", "too_small">>, <<"[2]", "invalid_type">> >>

(***************************************************************************)
(* Well-formed outcomes and flags                                          *)
(***************************************************************************)
WellFormed(res) ==
    /\ res.valid => Len(res.errors) = 0
    /\ ~res.valid => Len(res.errors) >= 1 /\ res.value = Nil

\* C25: every outcome is well formed: a valid one has no errors, an
\* invalid one has at least one error and a nil value.  It is stated of
\* the outcome the caller got and of the outcome every node of every tree
\* gives for each of its inputs, in every configuration reached.
C25_WellFormed ==
    /\ LastValidate => WellFormed(last.res)
    /\ \A n \in Nodes : \A value \in InputsFor(n) :
          WellFormed(Validate(heap, n, value, FALSE, StackLimit).res)

C25_Witness ==
    /\ LastValidate
    /\ Kind(last.node) = "Object"
    /\ ~last.res.valid
    /\ Len(last.res.errors) >= 2
    /\ last.res.value = Nil

\* C26: on every node exactly one of isOptional and isRequired is true,
\* after construction and after every call of Optional(), Required() and
\* Default(), those of the field-set derivation included.
C26_OneFlag ==
    \A n \in Nodes : heap.base[n].isOptional # heap.base[n].isRequired

\* Partial made a field optional that had Required() and Default() called
C26_Witness ==
    /\ LastValidate
    /\ last.node = "P"
    /\ focus = "pg"
    /\ last.pre.base["pg"].isRequired
    /\ last.pre.base["pg"].hasDefault
    /\ heap.base["pg"].isOptional
    /\ ~heap.base["pg"].isRequired

(***************************************************************************)
(* Unions and nil                                                          *)
(***************************************************************************)
LastUnionNil == LastValidate /\ Kind(last.node) = "Union" /\ last.input = Nil

\* some alternative of the last Union accepts nil on its own
AlternativeTakesNil ==
    \E i \in 1..Len(Cfg[last.node].schemas) :
        Validate(last.pre, Cfg[last.node].schemas[i], Nil, last.rev, StackLimit - 1).res.valid

\* C27: Validate(nil) on a Union without a default is valid with nil when
\* the Union is optional and one required error otherwise; no alternative
\* is called, also when one of them would accept nil.
C27_UnionNil ==
    (LastUnionNil /\ ~LastBase.hasDefault) =>
        /\ last.depth = 1
        /\ IF LastBase.isOptional THEN last.res = ValidResult(Nil)
           ELSE /\ IsRequiredFailure(last.res)

C27_Witness ==
    /\ LastUnionNil
    /\ ~LastBase.hasDefault
    /\ ~LastBase.isOptional
    /\ AlternativeTakesNil
    /\ ~last.res.valid
    /\ last.res.errors[1].code = "required"

(***************************************************************************)
(* Repeated directives: an Object constructed as Object({a, n}).Merge(M),  *)
(* where M and M2 carry directives of their own, is configured with        *)
(* Strict, Passthrough, Catchall, RequiredFields, Pick, Omit, Extend and   *)
(* Merge, each any number of times, and then used.                         *)
(***************************************************************************)
RequiredAgainArgs == {<<"a">>, <<"n">>}

ExtendAgainArgs == {MapOf(<<"a", "e">>, <<"ea", "ee">>), MapOf(<<"e">>, <<"ee2">>)}

MergeAgainArgs == {"M", "M2"}

InitCompose ==
    /\ heap = [InitHeap EXCEPT !.obj["W"] = Merge(@, "M")]
    /\ focus = "W"
    /\ last = NoCall
    /\ threads = NoThreads

NextCompose ==
    \/ StrictCall
    \/ PassthroughCall
    \/ \E schema \in CatchallArgs : CatchallCall(schema)
    \/ \E fields \in RequiredAgainArgs : RequiredFieldsCall(fields)
    \/ \E fields \in PickArgs : PickCall(fields)
    \/ \E fields \in OmitArgs : OmitCall(fields)
    \/ \E fields \in ExtendAgainArgs : ExtendCall(fields)
    \/ \E other \in MergeAgainArgs : MergeCall(other)
    \/ \E value \in InputsFor(focus) : ValidateCall(focus, value, FALSE)
    \/ \E rev \in BOOLEAN : KeyofCall(focus, rev)

SpecCompose == InitCompose /\ [][NextCompose]_vars

\* the field map the Object o was constructed with
Constructed(o) ==
    CASE o = "M" -> MapOf(<<"a", "c">>, <<"ma", "mc">>)
      [] o = "M2" -> MapOf(<<"a", "g">>, <<"m2a", "m2g">>)
      [] o = NilNode -> EmptyMap

\* the field map owed by a base map, the map of the Merge target, the
\* Extend entries, the Pick names and the Omit names
ExpectedMap(fields, mergeFields, extend, pick, omit) ==
    LET all == Overlay(Overlay(fields, mergeFields), extend)
        picked == IF Len(pick) > 0 THEN DOMAIN all \cap SeqToSet(pick) ELSE DOMAIN all
    IN [k \in picked \ SeqToSet(omit) |-> all[k]]

C28_State ==
    LastDerived =>
        LastEff.fields = ExpectedMap(LastSettings.fields, Constructed(LastSettings.merge),
                                     LastSettings.extend, LastSettings.pick,
                                     LastSettings.omit)

\* after Merge(other) the field map owes nothing to the earlier target
C28_Calls ==
    \A other \in MergeAgainArgs :
        MergeCall(other) =>
            SelectFields(heap', focus) =
                ExpectedMap(heap.obj[focus].fields, Constructed(other),
                            heap.obj[focus].extend, heap.obj[focus].pick,
                            heap.obj[focus].omit)

\* C28: Merge(other) overlays the field map other was constructed with and
\* nothing else: other's own Extend, Merge, Pick, Omit, Partial and
\* RequiredFields leave the merging Object's effective field map alone, and
\* a second Merge replaces the first target.
C28_MergeBase == [](C28_State) /\ [][C28_Calls]_vars

\* constructed with Merge(M), merged again with M2: c, which only M has, is
\* gone, g is there although M2 picks it alone, and a is M2's Boolean
C28_Witness ==
    /\ last.op = "Keyof"
    /\ LastSettings.merge = "M2"
    /\ LastSettings.extend = EmptyMap /\ LastSettings.pick = <<>>
    /\ LastSettings.omit = <<>>
    /\ SeqToSet(last.keys) = {"a", "g", "n"}
    /\ LastEff.fields["a"] = "m2a"

C29_State ==
    \A o \in ObjectNodes : ~(heap.obj[o].strict /\ heap.obj[o].passthrough)

C29_Calls ==
    /\ StrictCall =>
          /\ heap'.obj[focus].strict /\ ~heap'.obj[focus].passthrough
          /\ heap'.obj[focus].catchall = heap.obj[focus].catchall
    /\ PassthroughCall =>
          /\ heap'.obj[focus].passthrough /\ ~heap'.obj[focus].strict
          /\ heap'.obj[focus].catchall = heap.obj[focus].catchall
    /\ \A schema \in CatchallArgs :
          CatchallCall(schema) =>
              /\ heap'.obj[focus].strict = heap.obj[focus].strict
              /\ heap'.obj[focus].passthrough = heap.obj[focus].passthrough

\* C29: whatever Strict(), Passthrough() and Catchall() calls were made on
\* an Object, strict and passthrough are never both true: the latest of
\* Strict() and Passthrough() sets its own flag and clears the other, and
\* Catchall() changes neither.
C29_StrictOrPassthrough == [](C29_State) /\ [][C29_Calls]_vars

C29_Witness ==
    /\ LastObject
    /\ LastSettings.passthrough /\ ~LastSettings.strict
    /\ LastSettings.catchall # NilNode
    /\ UnknownKeys # {}

\* the fields the derivation of o marks required in the heap h
MarkedRequired(h, o) ==
    {k \in DOMAIN getEffectiveFields(h, o).fields :
        getEffectiveFields(h, o).h.base[getEffectiveFields(h, o).fields[k]].isRequired}

C30_Calls ==
    LET s == heap.obj[focus]
        mergeFields == Constructed(s.merge)
    IN /\ \A fields \in RequiredAgainArgs :
             RequiredFieldsCall(fields) =>
                 /\ SeqToSet(heap'.obj[focus].required) =
                       SeqToSet(s.required) \cup SeqToSet(fields)
                 /\ (SeqToSet(s.required) \cup SeqToSet(fields))
                       \cap DOMAIN SelectFields(heap', focus)
                          \subseteq MarkedRequired(heap', focus)
                 /\ SelectFields(heap', focus) = SelectFields(heap, focus)
       /\ \A fields \in ExtendAgainArgs :
             ExtendCall(fields) =>
                 SelectFields(heap', focus) =
                     ExpectedMap(s.fields, mergeFields, Overlay(s.extend, fields),
                                 s.pick, s.omit)
       /\ \A fields \in PickArgs :
             PickCall(fields) =>
                 SelectFields(heap', focus) =
                     ExpectedMap(s.fields, mergeFields, s.extend, fields, s.omit)
       /\ \A fields \in OmitArgs :
             OmitCall(fields) =>
                 SelectFields(heap', focus) =
                     ExpectedMap(s.fields, mergeFields, s.extend, s.pick, fields)

\* C30: RequiredFields and Extend accumulate over their calls, a later
\* Extend overwriting an earlier entry of the same name; every Pick and
\* every Omit replaces the names of the earlier ones, and without names
\* turns the directive off: the effective field map owes to the
\* accumulated RequiredFields and Extend entries and to the last Pick and
\* the last Omit only.
C30_Directives == [][C30_Calls]_vars

\* two RequiredFields calls and two Extend calls: both names are kept, e is
\* the later Extend's Number and a the earlier one's Boolean
C30_Witness ==
    /\ LastObject
    /\ LastSettings.required = <<"a", "n">>
    /\ LastSettings.extend = MapOf(<<"a", "e">>, <<"ea", "ee2">>)
    /\ LastSettings.pick = <<>>
    /\ {"a", "n"} \subseteq MarkedRequired(last.pre, last.node)
    /\ LastEff.fields["e"] = "ee2"

====
